---- MODULE Spec2Model ----
(***************************************************************************)
(* A model of the streaming RESP decoder (src/src/parser.rs) and of the    *)
(* value encoder (src/src/resp.rs).                                        *)
(*                                                                         *)
(* Bytes are their integer codes.  Text payloads (Rust String / Cow<str>)  *)
(* are the sequences of their UTF-8 bytes.  A RespValue, a ParseState, a   *)
(* ParseError and a ParseResult are records of one fixed shape each, the   *)
(* fields a variant does not have holding a default.                       *)
(***************************************************************************)
EXTENDS Integers, Sequences, FiniteSets, TLC

(***************************************************************************)
(* Program constants.                                                      *)
(***************************************************************************)
MAX_ITERATIONS == 1024
CRLF_LEN == 2
DEFAULT_BUFFER_INIT_SIZE == 4096

\* The byte literals the code matches on.
b ==
  [ plus |-> 43, minus |-> 45, colon |-> 58, dollar |-> 36, star |-> 42,
    percent |-> 37, tilde |-> 126, gt |-> 62, underscore |-> 95, hash |-> 35,
    comma |-> 44, lparen |-> 40, bang |-> 33, eq |-> 61, cr |-> 13, lf |-> 10,
    zero |-> 48, one |-> 49, nine |-> 57, t |-> 116, f |-> 102, dot |-> 46 ]

\* i64 is modelled as a two's complement integer of IntBits bits.
IntBits == 16
I64_MAX == 2 ^ (IntBits - 1) - 1
I64_MIN == 0 - 2 ^ (IntBits - 1)

Max(x, y) == IF x >= y THEN x ELSE y

\* buffer[from..to) with 0-based, end-exclusive positions, as Rust slices.
Slice(s, from, to) == SubSeq(s, from + 1, to)
\* buffer[i] with a 0-based index.
At(s, i) == s[i + 1]

IsDigit(c) == c >= b.zero /\ c <= b.nine

\* The markers a length follows.
LengthMarkers == {b.dollar, b.star, b.percent, b.tilde, b.gt}

(***************************************************************************)
(* RespValue (src/src/resp.rs).  null is TRUE for the None payload of an   *)
(* Option; text is a string payload, int an integer or boolean payload,    *)
(* items the elements of an aggregate (for Map: the pairs <<key, value>>). *)
(***************************************************************************)
RespValue(variant, null, text, int, items) ==
  [variant |-> variant, null |-> null, text |-> text, int |-> int, items |-> items]

SimpleString(s) == RespValue("SimpleString", FALSE, s, 0, <<>>)
Error(s) == RespValue("Error", FALSE, s, 0, <<>>)
Integer(i) == RespValue("Integer", FALSE, <<>>, i, <<>>)
BulkString(s) == RespValue("BulkString", FALSE, s, 0, <<>>)
BulkStringNone == RespValue("BulkString", TRUE, <<>>, 0, <<>>)
Array(a) == RespValue("Array", FALSE, <<>>, 0, a)
ArrayNone == RespValue("Array", TRUE, <<>>, 0, <<>>)
Null == RespValue("Null", FALSE, <<>>, 0, <<>>)
Boolean(x) == RespValue("Boolean", FALSE, <<>>, IF x THEN 1 ELSE 0, <<>>)
\* A Double is identified by the text Rust's Display prints for it.
Double(d) == RespValue("Double", FALSE, d, 0, <<>>)
BigNumber(s) == RespValue("BigNumber", FALSE, s, 0, <<>>)
BulkError(s) == RespValue("BulkError", FALSE, s, 0, <<>>)
BulkErrorNone == RespValue("BulkError", TRUE, <<>>, 0, <<>>)
VerbatimString(s) == RespValue("VerbatimString", FALSE, s, 0, <<>>)
VerbatimStringNone == RespValue("VerbatimString", TRUE, <<>>, 0, <<>>)
Map(m) == RespValue("Map", FALSE, <<>>, 0, m)
MapNone == RespValue("Map", TRUE, <<>>, 0, <<>>)
Set(s) == RespValue("Set", FALSE, <<>>, 0, s)
SetNone == RespValue("Set", TRUE, <<>>, 0, <<>>)
Push(s) == RespValue("Push", FALSE, <<>>, 0, s)
PushNone == RespValue("Push", TRUE, <<>>, 0, <<>>)

\* f64 == f64 on the texts that identify the two values: NaN equals nothing, and
\* the two zeros are equal.
f64_eq(s, t) ==
  /\ s # <<78, 97, 78>>
  /\ t # <<78, 97, 78>>
  /\ s = t \/ {s, t} = {<<48>>, <<45, 48>>}

RECURSIVE eq(_, _)
\* PartialEq for RespValue: the same variant and equal payloads.
eq(x, y) ==
  /\ x.variant = y.variant
  /\ IF x.variant = "Double" THEN f64_eq(x.text, y.text)
     ELSE /\ x.null = y.null
          /\ x.text = y.text
          /\ x.int = y.int
          /\ Len(x.items) = Len(y.items)
          /\ \A i \in 1..Len(x.items) :
               IF x.variant = "Map"
                 THEN eq(x.items[i][1], y.items[i][1]) /\ eq(x.items[i][2], y.items[i][2])
               ELSE eq(x.items[i], y.items[i])

\* The decimal digits of n >= 0, as format!("{}", n) prints them.
RECURSIVE FormatNat(_)
FormatNat(n) ==
  IF n < 10 THEN <<b.zero + n>> ELSE Append(FormatNat(n \div 10), b.zero + (n % 10))

\* A formatter that drops the sign.
FormatInt_unsigned(i) == FormatNat(IF i < 0 THEN 0 - i ELSE i)

\* format!("{}", i) of a signed integer.
FormatInt(i) == IF i < 0 THEN <<b.minus>> \o FormatNat(0 - i) ELSE FormatNat(i)

CRLF == <<b.cr, b.lf>>

RECURSIVE as_bytes(_)
RECURSIVE as_bytes_all(_)
\* The concatenation of the encodings of the elements of a Vec<RespValue>.
as_bytes_all(items) ==
  IF items = <<>> THEN <<>>
  ELSE IF Len(items) = 1 THEN as_bytes(items[1])
  ELSE as_bytes_all(SubSeq(items, 1, Len(items) \div 2)) \o
       as_bytes_all(SubSeq(items, Len(items) \div 2 + 1, Len(items)))

RECURSIVE as_bytes_pairs_swapped(_)
\* An encoder that writes the value of a pair before its key.
as_bytes_pairs_swapped(pairs) ==
  IF pairs = <<>> THEN <<>>
  ELSE as_bytes(pairs[1][2]) \o as_bytes(pairs[1][1]) \o as_bytes_pairs_swapped(Tail(pairs))

RECURSIVE as_bytes_pairs(_)
\* The concatenation of key and value encodings of the pairs of a Map.
as_bytes_pairs(pairs) ==
  IF pairs = <<>> THEN <<>>
  ELSE IF Len(pairs) = 1 THEN as_bytes(pairs[1][1]) \o as_bytes(pairs[1][2])
  ELSE as_bytes_pairs(SubSeq(pairs, 1, Len(pairs) \div 2)) \o
       as_bytes_pairs(SubSeq(pairs, Len(pairs) \div 2 + 1, Len(pairs)))

as_bytes(v) ==
  CASE v.variant = "SimpleString" -> <<b.plus>> \o v.text \o CRLF
    [] v.variant = "Error" -> <<b.minus>> \o v.text \o CRLF
    [] v.variant = "Integer" -> <<b.colon>> \o FormatInt(v.int) \o CRLF
    [] v.variant = "BulkString" ->
         IF v.null THEN <<b.dollar, b.minus, b.one>> \o CRLF
         ELSE <<b.dollar>> \o FormatNat(Len(v.text)) \o CRLF \o v.text \o CRLF
    [] v.variant = "Array" ->
         IF v.null THEN <<b.star, b.minus, b.one>> \o CRLF
         ELSE <<b.star>> \o FormatNat(Len(v.items)) \o CRLF \o as_bytes_all(v.items)
    [] v.variant = "Null" -> <<b.underscore>> \o CRLF
    [] v.variant = "Boolean" -> <<b.hash, IF v.int = 1 THEN b.t ELSE b.f>> \o CRLF
    [] v.variant = "Double" -> <<b.comma>> \o v.text \o CRLF
    [] v.variant = "BigNumber" -> <<b.lparen>> \o v.text \o CRLF
    [] v.variant = "BulkError" ->
         IF v.null THEN <<b.bang, b.minus, b.one>> \o CRLF
         ELSE <<b.bang>> \o v.text \o CRLF
    [] v.variant = "VerbatimString" ->
         IF v.null THEN <<b.eq, b.minus, b.one>> \o CRLF
         ELSE <<b.eq>> \o v.text \o CRLF
    [] v.variant = "Map" ->
         IF v.null THEN <<b.percent, b.minus, b.one>> \o CRLF
         ELSE <<b.percent>> \o FormatNat(Len(v.items)) \o CRLF \o as_bytes_pairs(v.items)
    [] v.variant = "Set" ->
         IF v.null THEN <<b.tilde, b.minus, b.one>> \o CRLF
         ELSE <<b.tilde>> \o FormatNat(Len(v.items)) \o CRLF \o as_bytes_all(v.items)
    [] v.variant = "Push" ->
         IF v.null THEN <<b.gt, b.minus, b.one>> \o CRLF
         ELSE <<b.gt>> \o FormatNat(Len(v.items)) \o CRLF \o as_bytes_all(v.items)

\* Whether `Vec<u8>::from(value)` panics: the last arm of its match.
from_panics(value) ==
  value.variant \notin {"SimpleString", "Error", "Integer", "BulkString", "Null", "Array"}

\* `Vec<u8>::from(value)` when it returns: the arms of its match.  The elements
\* of an Array are encoded with as_bytes.
from(value) ==
  CASE value.variant = "SimpleString" -> <<b.plus>> \o value.text \o CRLF
    [] value.variant = "Error" -> <<b.minus>> \o value.text \o CRLF
    [] value.variant = "Integer" -> <<b.colon>> \o FormatInt(value.int) \o CRLF
    [] value.variant = "BulkString" ->
         IF value.null THEN <<b.dollar, b.minus, b.one>> \o CRLF
         ELSE <<b.dollar>> \o FormatNat(Len(value.text)) \o CRLF \o value.text \o CRLF
    [] value.variant = "Null" -> <<b.dollar, b.minus, b.one>> \o CRLF
    [] value.variant = "Array" ->
         IF value.null THEN <<b.star, b.minus, b.one>> \o CRLF
         ELSE <<b.star>> \o FormatNat(Len(value.items)) \o CRLF \o as_bytes_all(value.items)

(***************************************************************************)
(* UTF-8 (std::str::from_utf8 and String::from_utf8_lossy).                *)
(***************************************************************************)
IsCont(s, i) == i <= Len(s) /\ s[i] >= 128 /\ s[i] <= 191
InRange(s, i, lo, hi) == i <= Len(s) /\ s[i] >= lo /\ s[i] <= hi

\* The range the second byte of a multi-byte sequence with lead byte c must lie in.
SecondLo(c) == IF c = 224 THEN 160 ELSE IF c = 240 THEN 144 ELSE 128
SecondHi(c) == IF c = 237 THEN 159 ELSE IF c = 244 THEN 143 ELSE 191

\* The number of bytes the lead byte c announces; 0 when c is no lead byte.
Utf8Width(c) ==
  IF c < 128 THEN 1
  ELSE IF c >= 194 /\ c <= 223 THEN 2
  ELSE IF c >= 224 /\ c <= 239 THEN 3
  ELSE IF c >= 240 /\ c <= 244 THEN 4
  ELSE 0

\* The length of the well-formed UTF-8 sequence at the 1-based index i of s; 0 if none.
Utf8SeqLen(s, i) ==
  LET w == Utf8Width(s[i])
  IN IF w <= 1 THEN w
     ELSE IF /\ InRange(s, i + 1, SecondLo(s[i]), SecondHi(s[i]))
             /\ \A k \in 2..(w - 1) : IsCont(s, i + k)
          THEN w ELSE 0

\* The length of the ill-formed run at i that from_utf8_lossy replaces by one U+FFFD.
Utf8BadLen(s, i) ==
  LET w == Utf8Width(s[i])
  IN IF w <= 1 \/ ~InRange(s, i + 1, SecondLo(s[i]), SecondHi(s[i])) THEN 1
     ELSE IF w = 2 \/ ~IsCont(s, i + 2) THEN 2
     ELSE 3

RECURSIVE Utf8ValidFrom(_, _)
Utf8ValidFrom(s, i) ==
  IF i > Len(s) THEN TRUE
  ELSE LET n == Utf8SeqLen(s, i) IN n > 0 /\ Utf8ValidFrom(s, i + n)

\* Bytes below 128 are one-byte sequences each.
IsAscii(s) == \A i \in 1..Len(s) : s[i] < 128

\* std::str::from_utf8(bytes).is_ok()
from_utf8_ok(s) == IsAscii(s) \/ Utf8ValidFrom(s, 1)

REPLACEMENT_CHARACTER == <<239, 191, 189>>

RECURSIVE LossyFrom(_, _)
LossyFrom(s, i) ==
  IF i > Len(s) THEN <<>>
  ELSE LET n == Utf8SeqLen(s, i)
       IN IF n > 0 THEN SubSeq(s, i, i + n - 1) \o LossyFrom(s, i + n)
          ELSE REPLACEMENT_CHARACTER \o LossyFrom(s, i + Utf8BadLen(s, i))

\* String::from_utf8_lossy(bytes).into_owned()
from_utf8_lossy(s) == IF IsAscii(s) THEN s ELSE LossyFrom(s, 1)

(***************************************************************************)
(* ParseError, ParseState, ParseResult (src/src/parser.rs).                *)
(***************************************************************************)
ParseError(kind, msg) == [kind |-> kind, msg |-> msg]
InvalidFormat(msg) == ParseError("InvalidFormat", msg)
InvalidLength == ParseError("InvalidLength", "")
UnexpectedEof == ParseError("UnexpectedEof", "")
Overflow == ParseError("Overflow", "")
NotEnoughData == ParseError("NotEnoughData", "")
InvalidDepth == ParseError("InvalidDepth", "")
InvalidUtf8 == ParseError("InvalidUtf8", "")
NoError == ParseError("", "")

\* The fields of every ParseState variant; a variant sets its own and leaves the rest.
ParseState(tag) ==
  [ tag |-> tag, pos |-> 0, value |-> 0, negative |-> FALSE, type_char |-> 0,
    start_pos |-> 0, remaining |-> 0, total |-> 0, current |-> 0, elements |-> <<>>,
    original_type_char |-> 0, error |-> NoError, complete |-> Null ]

Index(pos) == [ParseState("Index") EXCEPT !.pos = pos]
ReadingLength(pos, value, negative, type_char) ==
  [ParseState("ReadingLength") EXCEPT
     !.pos = pos, !.value = value, !.negative = negative, !.type_char = type_char]
ReadingBulkString(start_pos, remaining) ==
  [ParseState("ReadingBulkString") EXCEPT !.start_pos = start_pos, !.remaining = remaining]
ReadingSimpleString(pos) == [ParseState("ReadingSimpleString") EXCEPT !.pos = pos]
ReadingError(pos) == [ParseState("ReadingError") EXCEPT !.pos = pos]
ReadingInteger(pos) == [ParseState("ReadingInteger") EXCEPT !.pos = pos]
ReadingArray(pos, total, current, elements, original_type_char) ==
  [ParseState("ReadingArray") EXCEPT
     !.pos = pos, !.total = total, !.current = current, !.elements = elements,
     !.original_type_char = original_type_char]
ErrorState(error) == [ParseState("Error") EXCEPT !.error = error]
\* Complete(Some((value, pos)))
Complete(value, pos) == [ParseState("Complete") EXCEPT !.complete = value, !.pos = pos]
\* The handler panicked (an index or a slice out of range, a failed allocation).
Panicked == ParseState("Panic")

\* ParseResult: Ok(Some(value)), Err(error), or the unwinding of a panic.
Ok(value) == [kind |-> "Ok", value |-> value, error |-> NoError]
Err(error) == [kind |-> "Err", value |-> Null, error |-> error]
Panic == [kind |-> "Panic", value |-> Null, error |-> NoError]
NoResult == [kind |-> "", value |-> Null, error |-> NoError]

(***************************************************************************)
(* Parser: buffer is the content of the BytesMut and cap its capacity.     *)
(***************************************************************************)
\* overflow_checks is the profile of the build: whether integer overflow panics
\* (debug) or wraps (release, what new gives; the single lines are given to both).
new(max_depth, max_length) ==
  [ buffer |-> <<>>, cap |-> DEFAULT_BUFFER_INIT_SIZE, state |-> Index(0),
    max_length |-> max_length, max_depth |-> max_depth, nested_stack |-> <<>>,
    overflow_checks |-> FALSE ]

\* memchr(needle, buffer[start..]): the offset of the first needle, -1 for None.
memchr(needle, buffer, start) ==
  LET hits == {i \in start..(Len(buffer) - 1) : At(buffer, i) = needle}
  IN IF hits = {} THEN -1 ELSE (CHOOSE i \in hits : \A j \in hits : i <= j) - start

RECURSIVE find_crlf(_, _)
\* The position of the first CR at or after start that an LF follows; -1 for None,
\* -2 when the slice buffer[start..] is out of range (a panic).
find_crlf(buffer, start) ==
  IF start > Len(buffer) THEN -2
  ELSE LET r_position == memchr(b.cr, buffer, start)
           pos == start + r_position
       IN IF r_position = -1 THEN -1
          ELSE IF pos + 1 < Len(buffer) /\ At(buffer, pos + 1) = b.lf THEN pos
          ELSE find_crlf(buffer, pos + 1)

(***************************************************************************)
(* str::parse::<f64>() followed by Display, for lines without an exponent  *)
(* and with at most 15 significant digits (where the shortest round-trip   *)
(* text Display prints is the normalised decimal itself).  The result is   *)
(* <<>> for Err, and otherwise the text that identifies the f64.           *)
(***************************************************************************)
ToLower(c) == IF c >= 65 /\ c <= 90 THEN c + 32 ELSE c
LowerAll(s) == [i \in 1..Len(s) |-> ToLower(s[i])]

RECURSIVE StripLeadingZeros(_)
StripLeadingZeros(s) ==
  IF Len(s) > 1 /\ Head(s) = b.zero THEN StripLeadingZeros(Tail(s)) ELSE s

RECURSIVE StripTrailingZeros(_)
StripTrailingZeros(s) ==
  IF s # <<>> /\ s[Len(s)] = b.zero THEN StripTrailingZeros(SubSeq(s, 1, Len(s) - 1)) ELSE s

\* The text of the finite f64 with the given sign, integer digits and fraction digits.
f64_text(neg, int, frac) ==
  (IF neg THEN <<b.minus>> ELSE <<>>)
    \o StripLeadingZeros(IF int = <<>> THEN <<b.zero>> ELSE int)
    \o (IF StripTrailingZeros(frac) = <<>> THEN <<>> ELSE <<b.dot>> \o StripTrailingZeros(frac))

\* parse of the line without its sign; dots are the positions of its '.' bytes.
parse_f64_body(neg, body, dots) ==
  IF LowerAll(body) \in {<<105, 110, 102>>, <<105, 110, 102, 105, 110, 105, 116, 121>>}
    THEN (IF neg THEN <<b.minus>> ELSE <<>>) \o <<105, 110, 102>>
  ELSE IF LowerAll(body) = <<110, 97, 110>> THEN <<78, 97, 78>>
  ELSE IF /\ Cardinality(dots) <= 1
          /\ Len(body) > Cardinality(dots)
          /\ \A i \in 1..Len(body) : IsDigit(body[i]) \/ body[i] = b.dot
    THEN IF dots = {} THEN f64_text(neg, body, <<>>)
         ELSE f64_text(neg, SubSeq(body, 1, (CHOOSE i \in dots : TRUE) - 1),
                       SubSeq(body, (CHOOSE i \in dots : TRUE) + 1, Len(body)))
  ELSE <<>>

parse_f64_unsigned(neg, body) ==
  parse_f64_body(neg, body, {i \in 1..Len(body) : body[i] = b.dot})

parse_f64(s) ==
  IF s # <<>> /\ Head(s) \in {b.plus, b.minus}
    THEN parse_f64_unsigned(Head(s) = b.minus, Tail(s))
  ELSE parse_f64_unsigned(FALSE, s)

(***************************************************************************)
(* atoi::atoi::<i64>(bytes): an optional sign, then the longest run of     *)
(* digits, accumulated with checked arithmetic.  [some |-> FALSE] is None: *)
(* nothing was consumed, or the value left the range of i64.               *)
(***************************************************************************)
RECURSIVE AtoiDigits(_, _, _, _)
\* [value, index, overflow] after the digits of text from the 1-based index i on.
AtoiDigits(text, i, acc, negative) ==
  IF i > Len(text) \/ ~IsDigit(text[i]) THEN [value |-> acc, index |-> i - 1, overflow |-> FALSE]
  ELSE LET d == text[i] - b.zero
           next == IF negative THEN acc * 10 - d ELSE acc * 10 + d
       IN IF next > I64_MAX \/ next < I64_MIN
            THEN [value |-> 0, index |-> i, overflow |-> TRUE]
          ELSE AtoiDigits(text, i + 1, next, negative)

\* The Option atoi makes of what the digit loop returns.
atoi_result(r) ==
  IF r.overflow \/ r.index = 0 THEN [some |-> FALSE, value |-> 0]
  ELSE [some |-> TRUE, value |-> r.value]

atoi(text) ==
  IF text # <<>> /\ Head(text) \in {b.plus, b.minus}
    THEN atoi_result(AtoiDigits(text, 2, 0, Head(text) = b.minus))
  ELSE atoi_result(AtoiDigits(text, 1, 0, FALSE))

(***************************************************************************)
(* The handlers of Parser.  Each returns the next ParseState.              *)
(***************************************************************************)
\* Complete(Some((Double(value), pos))) for the f64 with the text d; <<>> is Err.
double_line(d, pos) ==
  IF d = <<>> THEN ErrorState(InvalidFormat("Invalid double value"))
  ELSE Complete(Double(d), pos)

\* A check of the big number that takes a `-` at any place.
is_valid_sign_anywhere(bytes) ==
  \A i \in 1..Len(bytes) : IsDigit(bytes[i]) \/ bytes[i] = b.minus

\* is_valid of the `(` arm: digits, and a `-` as the first byte.
is_valid(bytes) ==
  \A i \in 1..Len(bytes) : IsDigit(bytes[i]) \/ (i = 1 /\ bytes[i] = b.minus)

\* The `,` `(` `!` `=` arms of handle_index on the line `bytes`; pos is the
\* position after its CRLF.
line_value(marker, bytes, pos) ==
  CASE marker = b.comma ->
         IF ~from_utf8_ok(bytes) THEN ErrorState(InvalidUtf8)
         ELSE double_line(parse_f64(bytes), pos)
    [] marker = b.lparen ->
         IF ~is_valid(bytes)
           THEN ErrorState(InvalidFormat("Invalid big number format"))
         ELSE IF ~from_utf8_ok(bytes) THEN ErrorState(InvalidUtf8)
         ELSE Complete(BigNumber(bytes), pos)
    [] marker \in {b.bang, b.eq} ->
         IF Len(bytes) = 2 /\ bytes[1] = b.minus /\ bytes[2] = b.one
           THEN Complete(IF marker = b.bang THEN BulkErrorNone ELSE VerbatimStringNone, pos)
         ELSE IF ~from_utf8_ok(bytes) THEN ErrorState(InvalidUtf8)
         ELSE Complete(IF marker = b.bang THEN BulkError(bytes) ELSE VerbatimString(bytes), pos)

\* A handler that scans for the CRLF at end_pos (find_crlf's answer) from start on.
on_line(p, start, end_pos, marker) ==
  IF end_pos = -2 THEN Panicked
  ELSE IF end_pos = -1 THEN ErrorState(UnexpectedEof)
  ELSE line_value(marker, Slice(p.buffer, start, end_pos), end_pos + CRLF_LEN)

\* A decoder that takes the pair `\r\n` at a value boundary for a Null.
on_cr_as_null(buffer, index) ==
  IF index + 1 < Len(buffer) /\ At(buffer, index + 1) = b.lf THEN Complete(Null, index + 2)
  ELSE ErrorState(InvalidFormat("Expected \\n after \\r"))

\* The arm `b'\r'` of handle_index.
on_cr(buffer, index) ==
  IF index + 1 < Len(buffer) /\ At(buffer, index + 1) = b.lf THEN Index(index + 2)
  ELSE ErrorState(InvalidFormat("Expected \\n after \\r"))

\* A decoder that skips a byte that is no marker.
on_other_skipped(index) == Index(index + 1)

\* The arm `_` of handle_index.
on_other(index) == ErrorState(InvalidFormat("Invalid type marker"))

handle_index(p, index) ==
  LET buffer == p.buffer
      len == Len(p.buffer)
      c == p.buffer[index + 1]
  IN IF index >= len THEN ErrorState(UnexpectedEof)
     ELSE CASE c = b.plus -> ReadingSimpleString(index + 1)
            [] c = b.minus -> ReadingError(index + 1)
            [] c = b.colon -> ReadingInteger(index + 1)
            [] c \in {b.dollar, b.star, b.percent, b.tilde, b.gt} ->
                 ReadingLength(index + 1, 0, FALSE, c)
            [] c = b.underscore ->
                 IF /\ index + 2 < len
                    /\ At(buffer, index + 1) = b.cr
                    /\ At(buffer, index + 2) = b.lf
                   THEN Complete(Null, index + 3)
                 ELSE ErrorState(UnexpectedEof)
            [] c = b.hash ->
                 IF /\ index + 2 < len
                    /\ At(buffer, index + 2) = b.cr
                    /\ index + 3 < len
                    /\ At(buffer, index + 3) = b.lf
                   THEN CASE At(buffer, index + 1) = b.t -> Complete(Boolean(TRUE), index + 4)
                          [] At(buffer, index + 1) = b.f -> Complete(Boolean(FALSE), index + 4)
                          [] OTHER -> ErrorState(InvalidFormat("Invalid boolean value"))
                 ELSE ErrorState(UnexpectedEof)
            [] c \in {b.comma, b.lparen, b.bang, b.eq} ->
                 on_line(p, index + 1, find_crlf(p.buffer, index + 1), c)
            [] c = b.cr -> on_cr(buffer, index)
            [] OTHER -> on_other(index)

\* A decoder that takes a negative length for an aggregate without elements.
null_value_present(type_char) ==
  RespValue(CASE type_char = b.star -> "Array" [] type_char = b.percent -> "Map"
              [] type_char = b.tilde -> "Set" [] type_char = b.gt -> "Push",
            FALSE, <<>>, 0, <<>>)

\* The null form of the aggregate with marker type_char.
null_value(type_char) ==
  CASE type_char = b.star -> ArrayNone
    [] type_char = b.percent -> MapNone
    [] type_char = b.tilde -> SetNone
    [] type_char = b.gt -> PushNone

\* The present-empty form of the aggregate with marker type_char.
empty_value(type_char) ==
  CASE type_char = b.star -> Array(<<>>)
    [] type_char = b.percent -> Map(<<>>)
    [] type_char = b.tilde -> Set(<<>>)
    [] type_char = b.gt -> Push(<<>>)

\* A decoder that awaits one child for each pair of a Map.
total_elements_one_per_pair(p, value, type_char) == value

\* (value * 2) as usize: the i64 product panics under overflow checks and wraps
\* without them; -1 stands for the panic.
total_elements(p, value, type_char) ==
  IF type_char # b.percent THEN value
  ELSE IF value * 2 <= I64_MAX THEN value * 2
  ELSE IF p.overflow_checks THEN -1
  ELSE (value * 2) % (2 ^ IntBits)

\* size_of::<RespValue>() on a 64-bit target: a tag and the three words of a Cow
\* or of a Vec.
SIZE_OF_RESP_VALUE == 32

\* Vec::with_capacity(capacity) of RespValue panics ("capacity overflow") when
\* the capacity is of more than isize::MAX bytes.
with_capacity_panics(capacity) == capacity * SIZE_OF_RESP_VALUE > I64_MAX

\* A decoder that takes -1 alone for the null length and refuses the other
\* negative lengths.
handle_length_end_minus_one(p, next_pos, value, type_char) ==
  IF type_char \notin LengthMarkers
    THEN ErrorState(InvalidFormat("Invalid length type"))
  ELSE IF value < -1 THEN ErrorState(InvalidLength)
  ELSE IF value = -1
    THEN Complete(IF type_char = b.dollar THEN BulkStringNone ELSE null_value(type_char), next_pos)
  ELSE IF type_char = b.dollar
    THEN IF value > 0 THEN ReadingBulkString(next_pos, value)
         ELSE IF /\ Len(p.buffer) >= next_pos + CRLF_LEN
                 /\ Slice(p.buffer, next_pos, next_pos + CRLF_LEN) = CRLF
           THEN Complete(BulkString(<<>>), next_pos + CRLF_LEN)
         ELSE ErrorState(UnexpectedEof)
  ELSE IF value = 0 THEN Complete(empty_value(type_char), next_pos)
  ELSE ReadingArray(next_pos, total_elements(p, value, type_char), 0, <<>>, type_char)

\* A decoder that takes `$0\r\n` for the whole empty bulk string.
handle_length_end_one_crlf(p, next_pos, value, type_char) ==
  CASE type_char = b.dollar ->
         IF value < 0 THEN Complete(BulkStringNone, next_pos)
         ELSE IF value = 0 THEN Complete(BulkString(<<>>), next_pos)
         ELSE ReadingBulkString(next_pos, value)
    [] type_char \in {b.star, b.percent, b.tilde, b.gt} ->
         IF value < 0 THEN Complete(null_value(type_char), next_pos)
         ELSE IF value = 0 THEN Complete(empty_value(type_char), next_pos)
         ELSE IF total_elements(p, value, type_char) = -1 THEN Panicked
         ELSE IF with_capacity_panics(total_elements(p, value, type_char)) THEN Panicked
         ELSE ReadingArray(next_pos, total_elements(p, value, type_char), 0, <<>>, type_char)
    [] type_char = b.colon -> Complete(Integer(value), next_pos)
    [] OTHER -> ErrorState(InvalidFormat("Invalid length type"))

\* The `\r` arm of handle_length once the `\n` is there: the header is complete.
handle_length_end(p, next_pos, value, type_char) ==
  CASE type_char = b.dollar ->
         IF value < 0 THEN Complete(BulkStringNone, next_pos)
         ELSE IF value = 0
           THEN IF /\ Len(p.buffer) >= next_pos + CRLF_LEN
                   /\ Slice(p.buffer, next_pos, next_pos + CRLF_LEN) = CRLF
                  THEN Complete(BulkString(<<>>), next_pos + CRLF_LEN)
                ELSE ErrorState(UnexpectedEof)
         ELSE ReadingBulkString(next_pos, value)
    [] type_char \in {b.star, b.percent, b.tilde, b.gt} ->
         IF value < 0 THEN Complete(null_value(type_char), next_pos)
         ELSE IF value = 0 THEN Complete(empty_value(type_char), next_pos)
         ELSE IF total_elements(p, value, type_char) = -1 THEN Panicked
         ELSE IF with_capacity_panics(total_elements(p, value, type_char)) THEN Panicked
         ELSE ReadingArray(next_pos, total_elements(p, value, type_char), 0, <<>>, type_char)
    [] type_char = b.colon -> Complete(Integer(value), next_pos)
    [] OTHER -> ErrorState(InvalidFormat("Invalid length type"))

\* A decoder whose length wraps around the ends of the range of i64.
handle_length_digit_wrapping(value, digit, negative) ==
  LET new_value == IF negative THEN value * 10 - digit ELSE value * 10 + digit
  IN ((new_value - I64_MIN) % (2 ^ IntBits)) + I64_MIN

\* value.checked_mul(10) and then checked_sub or checked_add of the digit: the
\* new value, or I64_MAX + 1 for None.
handle_length_digit(value, digit, negative) ==
  LET v == value * 10
      new_value == IF negative THEN v - digit ELSE v + digit
  IN IF v > I64_MAX \/ v < I64_MIN \/ new_value > I64_MAX \/ new_value < I64_MIN
       THEN I64_MAX + 1
     ELSE new_value

handle_length(p, pos, value, negative, type_char) ==
  IF pos >= Len(p.buffer) THEN ErrorState(UnexpectedEof)
  ELSE LET c == At(p.buffer, pos)
           new_value == handle_length_digit(value, c - b.zero, negative)
       IN CASE IsDigit(c) ->
                 IF new_value = I64_MAX + 1 THEN ErrorState(Overflow)
                 ELSE ReadingLength(pos + 1, new_value, negative, type_char)
            [] c = b.minus -> ReadingLength(pos + 1, value, TRUE, type_char)
            [] c = b.cr ->
                 IF pos + 1 < Len(p.buffer) /\ At(p.buffer, pos + 1) = b.lf
                   THEN handle_length_end(p, pos + CRLF_LEN, value, type_char)
                 ELSE ErrorState(InvalidFormat("Expected \\n after \\r"))
            [] OTHER -> ErrorState(InvalidFormat("Invalid character in length"))

\* `remaining >= self.max_length`: the length check of handle_bulk_string.
exceeds_max_length(p, remaining) == remaining >= p.max_length

\* A decoder that waits for the payload before it looks at the length.
handle_bulk_string_payload_first(p, start_pos, remaining) ==
  IF Len(p.buffer) < start_pos + remaining + CRLF_LEN THEN ErrorState(NotEnoughData)
  ELSE IF exceeds_max_length(p, remaining) THEN ErrorState(InvalidLength)
  ELSE IF \/ At(p.buffer, start_pos + remaining) # b.cr
          \/ At(p.buffer, start_pos + remaining + 1) # b.lf
    THEN ErrorState(InvalidFormat("Missing CRLF terminator"))
  ELSE Complete(BulkString(Slice(p.buffer, start_pos, start_pos + remaining)),
                start_pos + remaining + CRLF_LEN)

handle_bulk_string(p, start_pos, remaining) ==
  LET required_len == start_pos + remaining + CRLF_LEN
      string_slice == Slice(p.buffer, start_pos, start_pos + remaining)
      is_ascii == \A i \in 1..Len(string_slice) : string_slice[i] < 128
  IN IF remaining = 0
       THEN ErrorState(InvalidFormat("Unexpected zero remaining in handle_bulk_string"))
     ELSE IF exceeds_max_length(p, remaining) THEN ErrorState(InvalidLength)
     ELSE IF Len(p.buffer) < required_len THEN ErrorState(NotEnoughData)
     ELSE IF \/ At(p.buffer, start_pos + remaining) # b.cr
             \/ At(p.buffer, start_pos + remaining + 1) # b.lf
       THEN ErrorState(InvalidFormat("Missing CRLF terminator"))
     ELSE IF ~is_ascii /\ ~from_utf8_ok(string_slice) THEN ErrorState(InvalidUtf8)
     ELSE Complete(BulkString(string_slice), start_pos + remaining + CRLF_LEN)

\* nested_stack after handle_array: the frame is pushed while elements are missing.
handle_array_stack(p, pos, total, current, elements, original_type_char) ==
  IF current >= total THEN p.nested_stack
  ELSE Append(p.nested_stack, ReadingArray(pos, total, current, elements, original_type_char))

handle_array(p, pos, total, current, elements, original_type_char) == Index(pos)

RECURSIVE IntegerDigits(_, _, _)
\* The digit loop of the fast path of handle_integer from the 1-based index i on:
\* the accumulated value, or the error that ends the loop.
IntegerDigits(bytes, i, value) ==
  IF i > Len(bytes) THEN [error |-> NoError, value |-> value]
  ELSE IF ~IsDigit(bytes[i])
    THEN [error |-> InvalidFormat("Invalid character in integer"), value |-> 0]
  ELSE IF value > (I64_MAX - (bytes[i] - b.zero)) \div 10
    THEN [error |-> Overflow, value |-> 0]
  ELSE IntegerDigits(bytes, i + 1, value * 10 + (bytes[i] - b.zero))

\* The longest line the fast path of handle_integer takes: 19 bytes, the number of
\* digits of i64::MAX, so at the width of the model the number of digits of I64_MAX.
FAST_PATH_LEN == Len(FormatNat(I64_MAX))

\* The end of the fast path: r is what the digit loop returns.  The comparison
\* `value == i64::MAX.wrapping_add(1)` is with i64::MIN.
fast_path_value(r, negative, pos) ==
  IF r.error # NoError THEN ErrorState(r.error)
  ELSE Complete(Integer(IF negative /\ r.value # I64_MIN THEN 0 - r.value ELSE r.value), pos)

\* The fallback of handle_integer: a is what atoi returns.
atoi_value(a, pos) ==
  IF a.some THEN Complete(Integer(a.value), pos)
  ELSE ErrorState(InvalidFormat("Invalid integer format (atoi failed)"))

\* handle_integer on the line `bytes`, without the explicit-positive-sign feature
\* (the default build); pos is the position after the CRLF of the line.
integer_line(bytes, pos) ==
  IF bytes # <<>> /\ Head(bytes) = b.plus
    THEN ErrorState(InvalidFormat(
           "Explicit '+' sign in integer not supported (use 'explicit-positive-sign' feature)"))
  ELSE IF Len(bytes) <= FAST_PATH_LEN
    THEN IF bytes # <<>> /\ Head(bytes) = b.minus
           THEN IF 1 >= Len(bytes)
                  THEN ErrorState(InvalidFormat("Invalid integer format after sign"))
                ELSE fast_path_value(IntegerDigits(bytes, 2, 0), TRUE, pos)
         ELSE fast_path_value(IntegerDigits(bytes, 1, 0), FALSE, pos)
  ELSE atoi_value(atoi(bytes), pos)

\* handle_simple_string on the line `bytes`.
simple_string_line(bytes, pos) ==
  IF \E i \in 1..Len(bytes) : bytes[i] = b.cr \/ bytes[i] = b.lf
    THEN ErrorState(InvalidFormat("Simple string cannot contain CR or LF"))
  ELSE Complete(SimpleString(from_utf8_lossy(bytes)), pos)

\* handle_error on the line `bytes`.
error_line(bytes, pos) == Complete(Error(from_utf8_lossy(bytes)), pos)

\* handle_simple_string, handle_error, handle_integer: end_pos is find_crlf's answer.
on_text_line(p, start, end_pos, kind) ==
  IF end_pos = -2 THEN Panicked
  ELSE IF end_pos = -1 THEN ErrorState(UnexpectedEof)
  ELSE CASE kind = "SimpleString" ->
              simple_string_line(Slice(p.buffer, start, end_pos), end_pos + CRLF_LEN)
         [] kind = "Error" -> error_line(Slice(p.buffer, start, end_pos), end_pos + CRLF_LEN)
         [] kind = "Integer" -> integer_line(Slice(p.buffer, start, end_pos), end_pos + CRLF_LEN)

handle_simple_string(p, pos) == on_text_line(p, pos, find_crlf(p.buffer, pos), "SimpleString")

handle_error(p, pos) == on_text_line(p, pos, find_crlf(p.buffer, pos), "Error")

handle_integer(p, pos) == on_text_line(p, pos, find_crlf(p.buffer, pos), "Integer")

\* clear_buffer(pos): the state is reset to Index { pos }, the stack is emptied;
\* the bytes of the buffer stay.
clear_buffer(p, pos) == [p EXCEPT !.state = Index(pos), !.nested_stack = <<>>]

(***************************************************************************)
(* try_parse.  A run of the loop is a record [p, done, result]: the parser, *)
(* whether the call has returned, and what it returned.                    *)
(***************************************************************************)
\* The pairs a completed Map frame builds from its elements.
map_pairs(elements) ==
  [i \in 1..(Len(elements) \div 2) |-> <<elements[2 * i - 1], elements[2 * i]>>]

\* The value a completed frame becomes.
completed_result(finished_type_char, completed_elements) ==
  CASE finished_type_char = b.percent -> Map(map_pairs(completed_elements))
    [] finished_type_char = b.tilde -> Set(completed_elements)
    [] finished_type_char = b.gt -> Push(completed_elements)
    [] OTHER -> Array(completed_elements)

\* The arm `ParseState::Complete(Some((value, pos)))` of the match on next_state.
on_complete(p, value, pos) ==
  LET depth == Len(p.nested_stack)
      top == p.nested_stack[depth]
      elements == Append(top.elements, value)
      current == top.current + 1
      rest == SubSeq(p.nested_stack, 1, depth - 1)
      completed == completed_result(top.original_type_char, elements)
  IN IF depth = 0
       THEN [p |-> clear_buffer(p, pos), done |-> TRUE, result |-> Ok(value)]
     ELSE IF current < top.total
       THEN [ p |-> [p EXCEPT !.nested_stack[depth].elements = elements,
                              !.nested_stack[depth].current = current,
                              !.state = Index(pos)],
              done |-> FALSE, result |-> NoResult ]
     ELSE IF rest = <<>>
       THEN [p |-> clear_buffer(p, pos), done |-> TRUE, result |-> Ok(completed)]
     ELSE [ p |-> [p EXCEPT !.nested_stack = rest, !.state = Complete(completed, pos)],
            done |-> FALSE, result |-> NoResult ]

\* The match on current_state: the handler of the state the parser is in.
next_state(p) ==
  LET st == p.state
  IN CASE st.tag = "Index" -> handle_index(p, st.pos)
       [] st.tag = "ReadingArray" ->
            handle_array(p, st.pos, st.total, st.current, st.elements, st.original_type_char)
       [] st.tag = "ReadingLength" ->
            handle_length(p, st.pos, st.value, st.negative, st.type_char)
       [] st.tag = "ReadingBulkString" -> handle_bulk_string(p, st.start_pos, st.remaining)
       [] st.tag = "ReadingSimpleString" -> handle_simple_string(p, st.pos)
       [] st.tag = "ReadingError" -> handle_error(p, st.pos)
       [] st.tag = "ReadingInteger" -> handle_integer(p, st.pos)
       [] OTHER -> st

\* A depth check that refuses the max_depth-th frame already.
depth_exceeded_inclusive(p) == Len(p.nested_stack) >= p.max_depth

\* Whether the depth check at the head of an iteration fails.
depth_exceeded(p) == Len(p.nested_stack) > p.max_depth

\* The parser after the handler of its state ran: handle_array pushes its frame.
after_handler(p) ==
  IF p.state.tag = "ReadingArray"
    THEN [p EXCEPT !.nested_stack =
            handle_array_stack(p, p.state.pos, p.state.total, p.state.current,
                               p.state.elements, p.state.original_type_char)]
  ELSE p

\* on_next_state with an Err arm that falls back to the value boundary before it
\* returns: what a decoder that restarts the value on a suspension would do.
on_next_state_restarting(q, next) ==
  CASE next.tag = "Complete" -> on_complete(q, next.complete, next.pos)
    [] next.tag = "Error" ->
         [p |-> [q EXCEPT !.state = Index(0), !.nested_stack = <<>>],
          done |-> TRUE, result |-> Err(next.error)]
    [] next.tag = "Panic" -> [p |-> q, done |-> TRUE, result |-> Panic]
    [] OTHER -> [p |-> [q EXCEPT !.state = next], done |-> FALSE, result |-> NoResult]

\* The match on next_state, the state the handler returned.
on_next_state(q, next) ==
  CASE next.tag = "Complete" -> on_complete(q, next.complete, next.pos)
    [] next.tag = "Error" -> [p |-> q, done |-> TRUE, result |-> Err(next.error)]
    [] next.tag = "Panic" -> [p |-> q, done |-> TRUE, result |-> Panic]
    [] OTHER -> [p |-> [q EXCEPT !.state = next], done |-> FALSE, result |-> NoResult]

\* One iteration of the loop of try_parse, after the iteration count is checked.
iteration(p) ==
  IF depth_exceeded(p) THEN [p |-> p, done |-> TRUE, result |-> Err(InvalidDepth)]
  ELSE on_next_state(after_handler(p), next_state(p))

RECURSIVE iterate(_, _)
\* n iterations of the loop, or fewer when the call returns before: the first half
\* of them, then the rest from where the first half ends.
iterate(run, n) ==
  IF run.done THEN run
  ELSE IF n = 1 THEN iteration(run.p)
  ELSE CHOOSE out \in {iterate(mid, n - (n \div 2)) : mid \in {iterate(run, n \div 2)}} : TRUE

\* A ceiling that lets the loop go on for as many iterations again.
at_ceiling_resuming(run) == IF run.done THEN run ELSE iterate(run, MAX_ITERATIONS)

\* A ceiling that throws the work of the call away: the state goes back to the
\* start of the buffer and the frames are dropped.
at_ceiling_restarting(run) ==
  IF run.done THEN run
  ELSE [ p |-> clear_buffer(run.p, 0), done |-> TRUE,
         result |-> Err(InvalidFormat("Maximum parsing iterations exceeded")) ]

\* try_parse: at most MAX_ITERATIONS iterations, then the error of the ceiling.
\* What try_parse returns when the loop ended as `run`.
at_ceiling(run) ==
  IF run.done THEN run
  ELSE [ p |-> run.p, done |-> TRUE,
         result |-> Err(InvalidFormat("Maximum parsing iterations exceeded")) ]

try_parse(p) ==
  at_ceiling(iterate([p |-> p, done |-> FALSE, result |-> NoResult], MAX_ITERATIONS))

(***************************************************************************)
(* read_buf.  BytesMut::reserve may give more than it is asked for: the    *)
(* capacity after a growth is the one asked for ("exact", what a buffer    *)
(* that was split off does when its allocation has room) or the amortised  *)
(* doubling of Vec ("amortized").                                          *)
(***************************************************************************)
GrowthPolicies == {"exact", "amortized"}

\* The capacity after BytesMut::reserve(additional).
reserve(len, cap, additional, policy) ==
  IF cap - len >= additional THEN cap
  ELSE IF policy = "exact" THEN len + additional
  ELSE Max(2 * cap, len + additional)

\* Whether read_buf takes the branch that drops the bytes before the cursor.
compacts(p, buf) ==
  /\ Len(p.buffer) > 0
  /\ p.cap < Len(p.buffer) + Len(buf)
  /\ p.state.tag = "Index"
  /\ p.state.pos > 0

\* BytesMut::split_off(pos) panics when pos is beyond the capacity.
read_buf_panics(p, buf) == compacts(p, buf) /\ p.state.pos > p.cap

\* The parser after the first `if` of read_buf.
split_off(p, buf) ==
  IF compacts(p, buf)
    THEN [p EXCEPT !.buffer = Slice(p.buffer, p.state.pos, Len(p.buffer)),
                   !.cap = p.cap - p.state.pos,
                   !.state = Index(0)]
  ELSE p

\* Whether read_buf takes the branch that clears the buffer.
clears(p, buf) == p.cap < Len(buf)

\* The parser after the second `if` of read_buf.
clear_and_reserve(p, buf, policy) ==
  IF clears(p, buf)
    THEN [p EXCEPT !.buffer = <<>>,
                   !.cap = reserve(0, p.cap, Len(buf) + DEFAULT_BUFFER_INIT_SIZE, policy)]
  ELSE p

\* self.buffer.extend_from_slice(buf)
extend_from_slice(p, buf, policy) ==
  [p EXCEPT !.buffer = p.buffer \o buf,
            !.cap = reserve(Len(p.buffer), p.cap, Len(buf), policy)]

read_buf(p, buf, policy) ==
  extend_from_slice(clear_and_reserve(split_off(p, buf), buf, policy), buf, policy)

(***************************************************************************)
(* The inputs: limits given to Parser::new, and byte streams.  A stream is *)
(* the concatenation of the encodings of the values of `sent` (wf), or a   *)
(* sequence of bytes that need not be well-formed.                         *)
(***************************************************************************)
MaxChunk == 3
MaxDepthLimit == 2
MinLengthLimit == 2
MaxLengthLimit == 3
MaxJunkLen == 3

Limits == (0..MaxDepthLimit) \X (MinLengthLimit..MaxLengthLimit)

\* Values without elements.
Leaves ==
  { SimpleString(<<97>>), Error(<<101>>), Integer(7), Integer(-12), Null, Boolean(TRUE),
    BulkString(<<>>), BulkString(<<97>>), BulkString(<<97, 98>>), BulkString(<<97, 98, 99>>),
    BulkStringNone, Double(<<49, 46, 53>>), BigNumber(<<45, 49>>),
    BulkError(<<120>>), BulkErrorNone, VerbatimString(<<120>>), VerbatimStringNone,
    ArrayNone, Array(<<>>), MapNone, Map(<<>>), SetNone, Set(<<>>), PushNone, Push(<<>>),
    Integer(I64_MIN), Integer(I64_MAX), BulkError(<<45, 49>>), SimpleString(<<79, 75>>),
    BulkError(<<>>), VerbatimString(<<>>), VerbatimString(<<45, 49>>),
    BulkString(<<13, 10>>) }

\* The elements the aggregates of the streams are built from.
Elements == { Null, Integer(7), BulkString(<<>>), BulkString(<<97, 98>>), ArrayNone }

\* Aggregates of one nesting level.
Flat ==
  {Array(<<x>>) : x \in Elements \cup {SimpleString(<<79, 75>>)}} \cup
  {Set(<<x>>) : x \in {Null}} \cup
  {Push(<<x>>) : x \in {Null}} \cup {Map(<<<<Null, x>>>>) : x \in {Null, Integer(7)}} \cup
  {Array(<<x, y>>) : x \in {Null, BulkString(<<>>)}, y \in {Null, Integer(7)}} \cup
  {Map(<<<<Integer(7), Null>>, <<Null, Null>>>>)} \cup
  {Array(<<Null, BulkStringNone, ArrayNone>>)}

\* Aggregates of two and three nesting levels.
Nested ==
  {Array(<<x>>) : x \in {Array(<<Null>>), Map(<<<<Null, Null>>>>), Array(<<>>),
                          Array(<<SimpleString(<<79, 75>>)>>)}} \cup
  {Array(<<Null, Array(<<Null>>)>>), Array(<<Array(<<Null>>), Null>>),
   Map(<<<<Null, Array(<<Null>>)>>>>), Set(<<Push(<<Null>>)>>),
   Array(<<Array(<<Array(<<Null>>)>>)>>), Array(<<Array(<<Array(<<>>)>>)>>)}

Values == Leaves \cup Flat \cup Nested

\* The streams of well-formed values: one value, or two.
Sequels == {Null, SimpleString(<<97>>), BulkString(<<97>>), Array(<<Null>>)}
Firsts == {Null, Integer(7), BulkString(<<97, 98>>), BulkString(<<>>), Array(<<Null>>),
           Array(<<Array(<<Null>>)>>)}
ValueStreams == {<<v>> : v \in Values} \cup {<<v, w>> : v \in Firsts, w \in Sequels}

\* The bytes the streams that need not be well-formed are made of.
JunkBytes == {b.plus, b.dollar, b.underscore, b.hash, b.zero, b.cr, b.lf, 97}
JunkStreams == UNION {[1..n -> JunkBytes] : n \in 1..MaxJunkLen}

\* Streams with a defect at a chosen place.
Defects ==
  { <<95, 97, 98>>,                          \* _ab
    <<35, 116, 120, 13>>,                    \* #tx\r
    <<36, 48, 13, 10, 97, 98>>,              \* $0\r\nab
    <<36, 50, 13, 10, 97, 98, 99, 13, 10>>,  \* $2\r\nabc\r\n
    <<43, 97, 10, 98, 13, 10>>,              \* +a\nb\r\n
    <<58, 120, 13, 10, 95, 13, 10>>,         \* :x\r\n_\r\n
    <<13, 10, 95, 13, 10>>,                  \* \r\n_\r\n
    <<42, 49, 13, 10, 13, 10, 95, 13, 10>>,  \* *1\r\n\r\n_\r\n
    <<36, 49, 128, 13, 10>>,                 \* $1<80>\r\n
    <<36, 49, 13, 10, 128, 13, 10>>,         \* $1\r\n<80>\r\n
    <<42, 50, 13, 10, 95, 13, 10, 63>>,      \* *2\r\n_\r\n?
    <<37, 49, 45, 13, 10, 95, 13, 10>> }     \* %1-\r\n_\r\n

Input(bytes, sent, wf) == [bytes |-> bytes, sent |-> sent, wf |-> wf]
Inputs ==
  {Input(as_bytes_all(vs), vs, TRUE) : vs \in ValueStreams} \cup
  {Input(bytes, <<>>, FALSE) : bytes \in Defects}
\* The junk streams hold no aggregate and no bulk length but 0: one pair of limits
\* is enough for them.
JunkInputs == {Input(bytes, <<>>, FALSE) : bytes \in JunkStreams}
JunkLimits == {<<MaxDepthLimit, MaxLengthLimit>>}

(***************************************************************************)
(* The state: one Parser and the caller that feeds it.                     *)
(***************************************************************************)
VARIABLES
  parser,  \* the Parser
  input,   \* the stream the caller feeds
  fed,     \* the number of bytes of the stream given to read_buf so far
  base,    \* the offset in the stream of the first byte of parser.buffer
  last,    \* the most recent call: its name, its argument, its result
  prev,    \* the call before it
  values,  \* the values try_parse has returned, in order
  fatal    \* the errors other than UnexpectedEof/NotEnoughData returned so far

vars == <<parser, input, fed, base, last, prev, values, fatal>>

Call(op, chunk, result) == [op |-> op, chunk |-> chunk, result |-> result]

Suspensions == {"UnexpectedEof", "NotEnoughData"}
IsSuspension(result) == result.kind = "Err" /\ result.error.kind \in Suspensions
IsFatal(result) == result.kind = "Err" /\ result.error.kind \notin Suspensions

InitWith(limits, inputs) ==
  /\ \E l \in limits : parser = new(l[1], l[2])
  /\ input \in inputs
  /\ fed = 0
  /\ base = 0
  /\ last = Call("new", <<>>, NoResult)
  /\ prev = Call("new", <<>>, NoResult)
  /\ values = <<>>
  /\ fatal = {}

Init == InitWith(Limits, Inputs) \/ InitWith(JunkLimits, JunkInputs)

\* read_buf(chunk) with the next n bytes of the stream.
ReadBufChunk(n, policy) ==
  LET chunk == SubSeq(input.bytes, fed + 1, fed + n)
      split == split_off(parser, chunk)
  IN /\ last.result.kind # "Panic"
     /\ fed + n <= Len(input.bytes)
     /\ fed' = fed + n
     /\ prev' = last
     /\ IF read_buf_panics(parser, chunk)
          THEN /\ last' = Call("read_buf", chunk, Panic)
               /\ UNCHANGED <<parser, base>>
        ELSE /\ parser' = read_buf(parser, chunk, policy)
             /\ last' = Call("read_buf", chunk, NoResult)
             /\ base' = IF clears(split, chunk) THEN fed
                        ELSE IF compacts(parser, chunk) THEN base + parser.state.pos
                        ELSE base
     /\ UNCHANGED <<input, values, fatal>>

ReadBuf == \E n \in 1..MaxChunk, policy \in GrowthPolicies : ReadBufChunk(n, policy)

\* The caller sees try_parse return as `run`.
Returned(run) ==
  /\ parser' = run.p
  /\ last' = Call("try_parse", <<>>, run.result)
  /\ prev' = last
  /\ values' = IF run.result.kind = "Ok" THEN Append(values, run.result.value) ELSE values
  /\ fatal' = IF IsFatal(run.result) THEN fatal \cup {run.result.error} ELSE fatal
  /\ UNCHANGED <<input, fed, base>>

TryParse ==
  /\ last.result.kind # "Panic"
  /\ Returned(try_parse(parser))

Next == ReadBuf \/ TryParse

Spec == Init /\ [][Next]_vars

(***************************************************************************)
(* The caller of the chunked-transfer tests: try_parse after each read_buf *)
(* until it stops returning a value.                                       *)
(***************************************************************************)
Exhausted == last.op = "new" \/ (last.op = "try_parse" /\ last.result.kind # "Ok")

DriverReadBuf == Exhausted /\ ReadBuf

DriverTryParse == (last.op = "read_buf" \/ last.result.kind = "Ok") /\ TryParse

DriverNext == DriverReadBuf \/ DriverTryParse

SpecDriver == Init /\ [][DriverNext]_vars

(***************************************************************************)
(* The run of a fresh Parser that receives the bytes in one read_buf and   *)
(* calls try_parse until it stops returning a value.                       *)
(***************************************************************************)
RECURSIVE exhaust(_, _)
\* [values, result]: the values returned before `run` together with those from
\* `run` on, and the result that ends the run.
exhaust(run, returned) ==
  IF run.result.kind = "Ok"
    THEN exhaust(try_parse(run.p), Append(returned, run.result.value))
  ELSE [values |-> returned, result |-> run.result]

OneShot(max_depth, max_length, bytes) ==
  exhaust(try_parse(read_buf(new(max_depth, max_length), bytes, "amortized")), <<>>)

Fed == SubSeq(input.bytes, 1, fed)

\* What C1 says of the chunked run that ended as this state, `one` being the
\* one-shot run on the same bytes.
SameAsOneShot(one) ==
  /\ values = one.values
  /\ \A e \in fatal : IsFatal(one.result) /\ one.result.error = e

\* C1: chunk-independence. When the caller has called try_parse to exhaustion after
\* each read_buf, the values returned so far are those a fresh parser returns when
\* it is given the same bytes in one read_buf, and every error other than
\* UnexpectedEof/NotEnoughData the chunked run returned is returned by that run too.
C1_ChunkIndependence ==
  (last.op = "try_parse" /\ last.result.kind = "Err")
    => SameAsOneShot(OneShot(parser.max_depth, parser.max_length, Fed))

(***************************************************************************)
(* A stream that fills the initial capacity of the buffer: FillerCount     *)
(* simple strings of FillerLen bytes, one more that ends the encodings two *)
(* bytes before DEFAULT_BUFFER_INIT_SIZE, then a short tail; or one array  *)
(* of LargeCount elements and a value after it.  The caller                *)
(* gives about a buffer's worth in one read_buf, the rest in small chunks, *)
(* and calls try_parse to exhaustion after each read_buf.                  *)
(***************************************************************************)
FillerCount == 15
FillerLen == 250

Repeat(x, n) == [i \in 1..n |-> x]

\* The encoding of SimpleString(text) is Len(text) + 3 bytes long.
Fillers ==
  [i \in 1..FillerCount |-> SimpleString(Repeat(97, FillerLen))] \o
  << SimpleString(Repeat(97, DEFAULT_BUFFER_INIT_SIZE - 2 - FillerCount * (FillerLen + 3) - 3)) >>

BigTails == { <<Null, Integer(7)>>, <<BulkString(<<97, 98>>), Null>>, <<Array(<<Null>>)>> }

\* The array of the benchmark's create_large_array(size), and a value after it.
LargeCount == 512
LargeArray == <<Array(Repeat(Integer(1), LargeCount)), Null>>

\* An aggregate that the fillers follow.
BigHeads == { <<Array(<<Null>>)>>, <<Map(<<<<Integer(7), Null>>>>)>> }

BigStreams ==
  {Fillers \o tail : tail \in BigTails} \cup {LargeArray} \cup
  {head \o Fillers : head \in BigHeads}

\* n `\r\n` pairs at a value boundary, then `_\r\n`.
CrLfRun(n) == [i \in 1..(2 * n) |-> IF i % 2 = 1 THEN b.cr ELSE b.lf] \o as_bytes(Null)

\* A bulk string whose length has n leading zeros: `$0...01\r\na\r\n`.
ZeroRun(n) == <<b.dollar>> \o Repeat(b.zero, n) \o <<b.one>> \o CRLF \o <<97>> \o CRLF

\* Streams that take one iteration of try_parse per pair or per digit: as many as
\* one call can take, and more.
LongRuns ==
  { CrLfRun(MAX_ITERATIONS - 1), CrLfRun(MAX_ITERATIONS),
    ZeroRun(MAX_ITERATIONS - 4), ZeroRun(MAX_ITERATIONS) }

BigInputs ==
  {Input(as_bytes_all(vs), vs, TRUE) : vs \in BigStreams} \cup
  {Input(bytes, <<>>, FALSE) : bytes \in LongRuns}
BigLimits == {<<MaxDepthLimit, MaxLengthLimit>>}
BulkChunks ==
  (DEFAULT_BUFFER_INIT_SIZE - 2)..(DEFAULT_BUFFER_INIT_SIZE + 1) \cup {Len(input.bytes) - 1}

BigInit == InitWith(BigLimits, BigInputs)

\* read_buf with about a buffer's worth of bytes, first or after one or two small
\* chunks.
ReadBufBulk ==
  /\ Exhausted
  /\ fed <= 2 * MaxChunk
  /\ \E n \in BulkChunks, policy \in GrowthPolicies : ReadBufChunk(n, policy)

\* read_buf with a small chunk, before the bulk or after it.
ReadBufSmall ==
  /\ fed <= MaxChunk \/ fed > 2 * MaxChunk
  /\ DriverReadBuf

BigNext == ReadBufBulk \/ ReadBufSmall \/ DriverTryParse

SpecBig == BigInit /\ [][BigNext]_vars

\* C4: idempotent suspension. When try_parse has returned UnexpectedEof or
\* NotEnoughData and is called again with no read_buf in between, it returns the
\* same error and leaves the buffer, the state and the nested stack as they were.
C4_IdempotentSuspension ==
  [][ (last.op = "try_parse" /\ IsSuspension(last.result) /\ last'.op = "try_parse")
        => (last'.result = last.result /\ parser' = parser) ]_vars

\* try_parse was called twice in a row while suspended inside an aggregate.
C4_Witness ==
  /\ prev.op = "try_parse" /\ IsSuspension(prev.result)
  /\ last.op = "try_parse" /\ IsSuspension(last.result)
  /\ parser.state.tag # "Index"
  /\ parser.nested_stack # <<>>

\* The cursor: the position in the buffer the state will read next.
cursor(p) == IF p.state.tag = "ReadingBulkString" THEN p.state.start_pos ELSE p.state.pos

\* The buffer from the cursor onward.
Unconsumed(p) == Slice(p.buffer, cursor(p), Len(p.buffer))

\* The state without its positions, which read_buf may shift.
Unplaced(p) == [p.state EXCEPT !.pos = 0, !.start_pos = 0]

\* C2: read_buf never discards unconsumed bytes. After read_buf(b) the buffer from
\* the cursor onward is what it was before the call followed by b, and the state
\* and the nested stack are the same but for the shift of the cursor.
C2_ReadBufKeepsUnconsumed ==
  [][ (last'.op = "read_buf" /\ last'.result.kind # "Panic")
        => /\ Unconsumed(parser') = Unconsumed(parser) \o last'.chunk
           /\ Unplaced(parser') = Unplaced(parser)
           /\ parser'.nested_stack = parser.nested_stack ]_vars

\* Whether s is the sequence of the first Len(s) elements of t.
IsPrefix(s, t) == Len(s) <= Len(t) /\ SubSeq(t, 1, Len(s)) = s

\* The offset in the stream of the byte at the cursor.
Offset == base + cursor(parser)

\* C3: ordering and exact consumption. On a stream of well-formed values the k-th
\* value try_parse returns is the k-th value of the stream, a success leaves the
\* cursor at the byte after the encoding of the value it returned, and try_parse
\* returns UnexpectedEof when the values returned cover all the bytes fed.
C3_OrderedExactConsumption ==
  input.wf =>
    /\ IsPrefix(values, input.sent)
    /\ last.result.kind = "Ok" => Offset = Len(as_bytes_all(values))
    /\ (last.op = "try_parse" /\ last.result.kind # "Ok" /\ Len(as_bytes_all(values)) = fed)
         => last.result = Err(UnexpectedEof)

\* The elements of an aggregate, the keys and values of a Map among them.
RECURSIVE Flatten(_)
Flatten(pairs) ==
  IF pairs = <<>> THEN <<>> ELSE <<Head(pairs)[1], Head(pairs)[2]>> \o Flatten(Tail(pairs))

Children(v) == IF v.variant = "Map" THEN Flatten(v.items) ELSE v.items

\* The number of non-empty aggregates open at once inside v, v included.
RECURSIVE Depth(_)
Depth(v) ==
  IF Children(v) = <<>> THEN 0
  ELSE 1 + Max(0, CHOOSE d \in {Depth(Children(v)[i]) : i \in 1..Len(Children(v))} :
                    \A i \in 1..Len(Children(v)) : Depth(Children(v)[i]) <= d)

\* The largest length of a bulk string inside v, v included.
RECURSIVE MaxBulk(_)
MaxBulk(v) ==
  IF v.variant = "BulkString" THEN Len(v.text)
  ELSE IF Children(v) = <<>> THEN 0
  ELSE CHOOSE n \in {MaxBulk(Children(v)[i]) : i \in 1..Len(Children(v))} :
         \A i \in 1..Len(Children(v)) : MaxBulk(Children(v)[i]) <= n

\* The value of the stream after those try_parse has returned.
NextValue == input.sent[Len(values) + 1]

\* The parser is between two values of the stream and the buffer holds the whole
\* encoding of the next one.
AtNextValue ==
  /\ input.wf
  /\ Len(values) < Len(input.sent)
  /\ IsPrefix(values, input.sent)
  /\ last.result.kind # "Panic"
  /\ parser.state.tag = "Index"
  /\ parser.nested_stack = <<>>
  /\ IsPrefix(as_bytes(NextValue), Unconsumed(parser))

\* The same, the value being within the limits.
HoldsNextValue ==
  /\ AtNextValue
  /\ Depth(NextValue) <= parser.max_depth
  /\ MaxBulk(NextValue) <= parser.max_length

\* What C5 says of the result `run` of the call of try_parse in this state.
OneValue(run) ==
  /\ run.result.kind = "Ok"
  /\ run.p.state = Index(cursor(parser) + Len(as_bytes(NextValue)))

\* C5: one call, one value. When the buffer from the cursor onward holds the whole
\* encoding of a well-formed value within max_depth and max_length, one call of
\* try_parse returns a value and leaves the cursor after that encoding, whatever
\* the number of elements of the value.
C5_OneCallOneValue == HoldsNextValue => OneValue(try_parse(parser))

\* C6: fatal errors are terminal. Once try_parse has returned an error other than
\* UnexpectedEof/NotEnoughData, no later try_parse returns a value, whatever is
\* fed afterwards; after InvalidDepth every later try_parse returns InvalidDepth.
C6_FatalIsTerminal ==
  last.op = "try_parse" =>
    /\ last.result.kind = "Ok" => fatal = {}
    /\ InvalidDepth \in fatal => last.result = Err(InvalidDepth)

(***************************************************************************)
(* The caller of the round-trip tests: the whole stream in one read_buf,   *)
(* then try_parse until it stops returning a value.                        *)
(***************************************************************************)
ReadBufAll ==
  /\ fed = 0
  /\ \E policy \in GrowthPolicies : ReadBufChunk(Len(input.bytes), policy)

OneShotNext == ReadBufAll \/ DriverTryParse

SpecOneShot == Init /\ [][OneShotNext]_vars

\* Whether text is free of CR and LF.
NoCrLf(text) == \A i \in 1..Len(text) : text[i] \notin {b.cr, b.lf}

\* C8: round trip. For a well-formed value v whose bulk lengths are within
\* max_length and whose nesting is within max_depth, a fresh Parser that receives
\* v.as_bytes() returns v from its first try_parse, the cursor at the end of the
\* encoding.
C8_RoundTrip ==
  ( /\ input.wf /\ Len(input.sent) = 1
    /\ NoCrLf(input.sent[1].text)
    /\ MaxBulk(input.sent[1]) <= parser.max_length
    /\ Depth(input.sent[1]) <= parser.max_depth
    /\ prev.op = "read_buf" /\ last.op = "try_parse" )
  => /\ last.result = Ok(input.sent[1])
     /\ parser.state = Index(Len(input.bytes))

\* Whether u is a proper prefix of one of the encodings.
ProperPrefixOfAny(u, encodings) == \E e \in encodings : Len(u) < Len(e) /\ IsPrefix(u, e)

\* The well-formed encodings that begin with `_`, with `#`, with the header `$0`.
NullEncodings == {as_bytes(Null)}
BooleanEncodings == {as_bytes(Boolean(TRUE)), as_bytes(Boolean(FALSE))}
EmptyBulkEncodings == {as_bytes(BulkString(<<>>))}
EmptyBulkHeader == <<b.dollar, b.zero>> \o CRLF

\* C7: suspension means incomplete, never malformed. When try_parse returns
\* UnexpectedEof or NotEnoughData on the first value of a stream, the bytes fed
\* are a proper prefix of a well-formed encoding: after the marker `_` of `_\r\n`,
\* after `#` of `#t\r\n` or `#f\r\n`, after the header `$0\r\n` of `$0\r\n\r\n`.
C7_SuspensionMeansIncomplete ==
  (last.op = "try_parse" /\ IsSuspension(last.result) /\ values = <<>> /\ fed > 0)
    => /\ Fed[1] = b.underscore => ProperPrefixOfAny(Fed, NullEncodings)
       /\ Fed[1] = b.hash => ProperPrefixOfAny(Fed, BooleanEncodings)
       /\ IsPrefix(EmptyBulkHeader, Fed) => ProperPrefixOfAny(Fed, EmptyBulkEncodings)

\* C9: the max_length boundary. try_parse returns InvalidLength exactly when the
\* length N of a bulk-string header is greater than max_length; with
\* 0 < N <= max_length the payload is decoded once N + 2 further bytes, the payload
\* and its CRLF, are buffered.
C9_MaxLengthBoundary ==
  (last.op = "try_parse" /\ parser.state.tag = "ReadingBulkString")
    => /\ last.result = Err(InvalidLength) <=> parser.state.remaining > parser.max_length
       /\ ( /\ parser.state.remaining <= parser.max_length
            /\ Len(parser.buffer) >= parser.state.start_pos + parser.state.remaining + CRLF_LEN )
          => last.result.kind = "Err" /\ last.result.error.kind \in {"InvalidFormat", "InvalidUtf8"}

\* The length of the header of an aggregate: marker, count, CRLF.
HeaderLen(v) ==
  1 + Len(FormatNat(IF v.variant = "Map" THEN Len(v.items) ELSE Len(Children(v)))) + CRLF_LEN

\* The offset in the encoding of v of the end of the header that opens the
\* (d+1)-th frame open at once, -1 when v never has more than d frames open.
RECURSIVE Opens(_, _)
RECURSIVE OpensIn(_, _, _, _)
Opens(v, d) ==
  IF Children(v) = <<>> THEN -1
  ELSE IF d = 0 THEN HeaderLen(v)
  ELSE OpensIn(Children(v), 1, d - 1, HeaderLen(v))

\* The same among the elements from the i-th on, of which the i-th begins at `at`.
OpensIn(elements, i, d, at) ==
  IF i > Len(elements) THEN -1
  ELSE IF Opens(elements[i], d) >= 0 THEN at + Opens(elements[i], d)
  ELSE OpensIn(elements, i + 1, d, at + Len(as_bytes(elements[i])))

\* No bulk string of v is refused for its length.
BulksPass(v) == ~exceeds_max_length(parser, MaxBulk(v))

\* C10: the max_depth boundary. With max_depth = d, a value that never has more
\* than d non-empty aggregates open at once decodes; a value that opens a (d+1)-th
\* frame makes try_parse return InvalidDepth as soon as the header that opens it is
\* buffered, the cursor after that header and no element of the frame read; and
\* InvalidDepth is returned in no other case.
C10_MaxDepthBoundary ==
  /\ (AtNextValue /\ BulksPass(NextValue) /\ Depth(NextValue) <= parser.max_depth)
       => try_parse(parser).result.kind = "Ok"
  /\ (input.wf /\ values = <<>> /\ last.op = "try_parse" /\ BulksPass(input.sent[1]))
       => IF Opens(input.sent[1], parser.max_depth) >= 0
             /\ fed >= Opens(input.sent[1], parser.max_depth)
            THEN /\ last.result = Err(InvalidDepth)
                 /\ parser.state = Index(Opens(input.sent[1], parser.max_depth))
                 /\ Len(parser.nested_stack) = parser.max_depth + 1
                 /\ parser.nested_stack[parser.max_depth + 1].elements = <<>>
          ELSE InvalidDepth \notin fatal

\* With max_depth = 1, `*1\r\n*1\r\n` of `*1\r\n*1\r\n+OK\r\n` is fed, nothing of the
\* element +OK, and try_parse has returned InvalidDepth.
C10_Witness ==
  /\ input.sent = <<Array(<<Array(<<SimpleString(<<79, 75>>)>>)>>)>>
  /\ parser.max_depth = 1
  /\ fed = 8
  /\ last = Call("try_parse", <<>>, Err(InvalidDepth))

(***************************************************************************)
(* The iterations of the loop of try_parse, counted.                       *)
(***************************************************************************)
RECURSIVE count(_, _)
\* [run, steps]: the loop without its ceiling followed for at most n iterations
\* from c on, and the number of iterations it made.
count(c, n) ==
  IF c.run.done THEN c
  ELSE IF n = 1 THEN [run |-> iteration(c.run.p), steps |-> c.steps + 1]
  ELSE CHOOSE out \in {count(mid, n - (n \div 2)) : mid \in {count(c, n \div 2)}} : TRUE

\* The iterations a call of try_parse on p would make without the ceiling, followed
\* for twice the ceiling.
uncapped(p) ==
  count([run |-> [p |-> p, done |-> FALSE, result |-> NoResult], steps |-> 0],
        2 * MAX_ITERATIONS)

\* What C11 says of the call `run` of try_parse, c being the loop without ceiling.
BoundedWork(run, c) ==
  /\ run.done
  /\ run.result.kind = "Ok" => (c.steps <= MAX_ITERATIONS /\ run = c.run)
  /\ c.steps > MAX_ITERATIONS =>
       run.result = Err(InvalidFormat("Maximum parsing iterations exceeded"))

\* C11: bounded work. A call of try_parse returns after at most MAX_ITERATIONS
\* iterations of its loop on any buffer content: it returns a value only when the
\* loop reaches it within MAX_ITERATIONS iterations, and when the loop would need
\* more it returns the error of the ceiling, never a value.
C11_BoundedWork == last.result.kind # "Panic" => BoundedWork(try_parse(parser), uncapped(parser))

\* MAX_ITERATIONS `\r\n` pairs and `_\r\n` were buffered: try_parse has returned the
\* error of the ceiling, the cursor after the pairs, and no value.
C11_Witness ==
  /\ input.bytes = CrLfRun(MAX_ITERATIONS)
  /\ last = Call("try_parse", <<>>, Err(InvalidFormat("Maximum parsing iterations exceeded")))
  /\ parser.state = Index(2 * MAX_ITERATIONS)
  /\ values = <<>>

(***************************************************************************)
(* Null forms, empty forms and Null.                                       *)
(***************************************************************************)
\* The null form and the present-empty form of the variant with marker m.
NullForm(m) ==
  CASE m = b.dollar -> BulkStringNone
    [] m = b.star -> ArrayNone
    [] m = b.percent -> MapNone
    [] m = b.tilde -> SetNone
    [] m = b.gt -> PushNone

EmptyForm(m) ==
  CASE m = b.dollar -> BulkString(<<>>)
    [] m = b.star -> Array(<<>>)
    [] m = b.percent -> Map(<<>>)
    [] m = b.tilde -> Set(<<>>)
    [] m = b.gt -> Push(<<>>)

\* `m-1\r\n`, and the encoding with length zero: `$0\r\n\r\n`, `m0\r\n`.
NullLine(m) == <<m, b.minus, b.one>> \o CRLF
EmptyLine(m) == <<m, b.zero>> \o CRLF \o (IF m = b.dollar THEN CRLF ELSE <<>>)

\* The bytes the first value try_parse returned was decoded from.
FirstBytes == SubSeq(input.bytes, 1, Offset)

\* Null, the null BulkString and the null Array as elements of an aggregate.
NullsArray == Array(<<Null, BulkStringNone, ArrayNone>>)

\* C12: null, empty and Null decoding. For each marker m of `$ * % ~ >`, `m-1\r\n`
\* decodes to the null form of the variant and a zero length to its present-empty
\* form, and the two are unequal; `_\r\n` decodes to Null, which is unequal to the
\* null BulkString and to the null Array, also as elements of an aggregate.
C12_NullEmptyDecoding ==
  (last.op = "try_parse" /\ last.result.kind = "Ok" /\ Len(values) = 1) =>
    /\ \A m \in LengthMarkers :
         /\ FirstBytes = NullLine(m) => eq(values[1], NullForm(m))
         /\ FirstBytes = EmptyLine(m) => eq(values[1], EmptyForm(m))
         /\ ~eq(NullForm(m), EmptyForm(m))
    /\ FirstBytes = as_bytes(Null) =>
         eq(values[1], Null) /\ ~eq(values[1], BulkStringNone) /\ ~eq(values[1], ArrayNone)
    /\ FirstBytes = as_bytes(NullsArray) =>
         /\ eq(values[1], NullsArray)
         /\ \A i, j \in 1..Len(values[1].items) :
              i # j => ~eq(values[1].items[i], values[1].items[j])

\* `*3\r\n_\r\n$-1\r\n*-1\r\n` arrived in chunks and was decoded after a suspension.
C12_Witness ==
  /\ last.op = "try_parse" /\ last.result.kind = "Ok"
  /\ values = <<NullsArray>>
  /\ FirstBytes = as_bytes(NullsArray)
  /\ prev.op = "read_buf" /\ prev.chunk # input.bytes

\* C13: BulkError and VerbatimString keep three states through the wire. as_bytes
\* maps the null value, the present-empty value and the present-non-empty values of
\* the variant to pairwise different byte strings, and try_parse applied to
\* as_bytes(v) returns v for the null value, for the empty text and for every
\* non-empty text without CR or LF.
C13_ThreeStatesOnTheWire ==
  ( /\ input.wf /\ Len(input.sent) = 1
    /\ input.sent[1].variant \in {"BulkError", "VerbatimString"}
    /\ NoCrLf(input.sent[1].text)
    /\ prev.op = "read_buf" /\ last.op = "try_parse" )
  => /\ last.result.kind = "Ok"
     /\ eq(last.result.value, input.sent[1])
     /\ \A w \in Values :
          (w.variant = input.sent[1].variant /\ ~eq(w, input.sent[1]))
            => as_bytes(w) # as_bytes(input.sent[1])

\* Whether v is an aggregate that is present.
IsAggregate(v) == v.variant \in {"Array", "Map", "Set", "Push"} /\ ~v.null

\* What C14 says of the decoded value v, sent being the value on the wire: the
\* same variant, as many items as declared, each the child at its place on the wire.
SameChildren(v, sent) ==
  /\ v.variant = sent.variant
  /\ ~v.null
  /\ Len(v.items) = Len(sent.items)
  /\ \A i \in 1..Len(v.items) :
       IF v.variant = "Map"
         THEN /\ eq(v.items[i][1], Children(sent)[2 * i - 1])
              /\ eq(v.items[i][2], Children(sent)[2 * i])
       ELSE eq(v.items[i], Children(sent)[i])

\* C14: aggregate order and Map pairing. On a stream of well-formed values, for
\* every chunking, a decoded Array, Set or Push of declared count N holds its N
\* children in wire order, and a decoded Map of N pairs holds N pairs, the i-th
\* being the (2i-1)-th and the 2i-th child; no child is dropped, duplicated or
\* reordered.
C14_AggregateOrder ==
  input.wf =>
    \A k \in 1..Len(values) :
      (k <= Len(input.sent) /\ IsAggregate(input.sent[k])) => SameChildren(values[k], input.sent[k])

(***************************************************************************)
(* Single lines: an Integer line, a length header, a SimpleString or Error *)
(* line, each given to a fresh Parser in one read_buf.                     *)
(***************************************************************************)
MaxZeros == 2
MaxLengthText == 3
MaxTextLen == 3

\* The sequences of at most n elements of the set.
SeqsUpTo(set, n) == UNION {[1..k -> set] : k \in 0..n}

\* `:` sign zeros digits suffix `\r\n`: magnitudes around the ends of the range of
\* i64, of as many digits as i64::MAX has, of one more, and of many more;
\* `m` text `\r\n` with or without a value after it, the text made of `-` and digits,
\* or with another byte, or beyond the range of i64;
\* `(` text `\r\n` with or without a value after it, the text made of `-`, digits,
\* a letter and `\r`;
\* `+` or `-`, a text, and `\r\n`, `\n` or nothing.
Lines ==
  LET signs == {<<>>, <<b.minus>>, <<b.plus>>}
      zeros == {Repeat(b.zero, k) : k \in 0..MaxZeros}
      magnitudes ==
        {<<>>} \cup
        {FormatNat(n) : n \in {0, 7, 12, I64_MAX - 1, I64_MAX, I64_MAX + 1, I64_MAX + 2,
                               10 ^ FAST_PATH_LEN - 1, 10 ^ FAST_PATH_LEN,
                               10 ^ (FAST_PATH_LEN + 1) - 1, 10 ^ 9 - 1}}
      suffixes == {<<>>, <<120>>, <<b.dot>>, <<b.minus>>, <<b.plus>>}
      lengths ==
        (SeqsUpTo({b.minus, b.zero, b.one, 50}, MaxLengthText) \ {<<>>}) \cup
        { <<b.one, 120>>, <<120>>, <<b.plus, b.one>>, <<b.minus, b.one, 32>>,
          FormatInt(I64_MIN), <<b.minus>> \o FormatNat(I64_MAX + 2),
          FormatNat(I64_MAX), FormatNat(I64_MAX + 1),
          <<b.minus>> \o FormatNat(10 ^ 9 - 1) }
      tails == {<<>>, as_bytes(Null)}
      texts == SeqsUpTo({97, b.cr, b.lf, 128, 195, 169}, MaxTextLen)
      ends == {CRLF, <<b.lf>>, <<>>}
      numbers == SeqsUpTo({b.minus, b.zero, b.one, 97, b.cr}, MaxTextLen)
  IN {<<b.lparen>> \o n \o CRLF \o t : n \in numbers, t \in tails} \cup
     {<<b.colon>> \o s \o z \o m \o x \o CRLF :
        s \in signs, z \in zeros, m \in magnitudes, x \in suffixes} \cup
     {<<m>> \o l \o CRLF \o t : m \in LengthMarkers, l \in lengths, t \in tails} \cup
     {<<m>> \o t \o e : m \in {b.plus, b.minus}, t \in texts, e \in ends}

\* A fresh Parser of a build with overflow checks or of one without, and a line.
LinesInit ==
  /\ \E checks \in BOOLEAN :
       parser = [new(MaxDepthLimit, MaxLengthLimit) EXCEPT !.overflow_checks = checks]
  /\ input \in {Input(bytes, <<>>, FALSE) : bytes \in Lines}
  /\ fed = 0
  /\ base = 0
  /\ last = Call("new", <<>>, NoResult)
  /\ prev = Call("new", <<>>, NoResult)
  /\ values = <<>>
  /\ fatal = {}

SpecLines == LinesInit /\ [][OneShotNext]_vars

\* The position in the stream of its first `\r\n`, 0 when it has none.
FirstCrLf ==
  LET at == {i \in 1..(Len(input.bytes) - 1) : input.bytes[i] = b.cr /\ input.bytes[i + 1] = b.lf}
  IN IF at = {} THEN 0 ELSE CHOOSE i \in at : \A j \in at : i <= j

\* The text of the first line of the stream: the bytes between the marker and the
\* first `\r\n`.
LineText == SubSeq(input.bytes, 2, FirstCrLf - 1)

\* The stream begins with a line of the marker, and try_parse was called once,
\* after the whole stream was given to read_buf.
FirstCallOn(marker) ==
  /\ input.bytes[1] = marker
  /\ FirstCrLf > 0
  /\ fed = Len(input.bytes)
  /\ prev.op = "read_buf" /\ last.op = "try_parse"

\* Whether text is an optional `-` and at least one decimal digit.
IsDecimal(text) ==
  /\ text # <<>>
  /\ \A i \in 1..Len(text) : IsDigit(text[i]) \/ (i = 1 /\ text[i] = b.minus)
  /\ \E i \in 1..Len(text) : IsDigit(text[i])

\* The number the digits of text denote.
RECURSIVE DigitsValue(_)
DigitsValue(digits) ==
  IF digits = <<>> THEN 0
  ELSE 10 * DigitsValue(SubSeq(digits, 1, Len(digits) - 1)) + (digits[Len(digits)] - b.zero)

\* The number a decimal text denotes.
DecimalValue(text) ==
  IF Head(text) = b.minus THEN 0 - DigitsValue(Tail(text)) ELSE DigitsValue(text)

\* C15: the Integer range. An Integer line of an optional `-` and digits decodes to
\* its decimal value when the value is within the range of i64, i64::MIN, i64::MAX
\* and texts with leading zeros included, and yields Overflow when the value is
\* outside the range, whatever the number of digits.
C15_IntegerRange ==
  (FirstCallOn(b.colon) /\ IsDecimal(LineText)) =>
    IF DecimalValue(LineText) >= I64_MIN /\ DecimalValue(LineText) <= I64_MAX
      THEN last.result = Ok(Integer(DecimalValue(LineText)))
    ELSE last.result = Err(Overflow)

\* C16: the Integer grammar. try_parse returns an Integer only for a line of an
\* optional single leading `-` and at least one decimal digit; every other line,
\* empty, a lone sign, with `.`, with `+` or with any other non-digit byte, of any
\* length, yields InvalidFormat.
C16_IntegerGrammar ==
  (FirstCallOn(b.colon) /\ ~IsDecimal(LineText)) =>
    last.result.kind = "Err" /\ last.result.error.kind = "InvalidFormat"

\* The stream begins with the marker and try_parse was called once, after the whole
\* stream was given to read_buf.
WholeFed(marker) ==
  /\ input.bytes[1] = marker
  /\ fed = Len(input.bytes)
  /\ prev.op = "read_buf" /\ last.op = "try_parse"

\* C17: SimpleString validation. A `+` line whose text, the bytes before the
\* terminating CRLF, contains a CR or an LF yields InvalidFormat; a `+` line without
\* CR or LF in its text decodes to SimpleString of exactly that text; a `+` line not
\* yet terminated by CRLF suspends with UnexpectedEof.
C17_SimpleStringValidation ==
  WholeFed(b.plus) =>
    IF FirstCrLf = 0 THEN last.result = Err(UnexpectedEof)
    ELSE IF ~NoCrLf(LineText)
      THEN last.result.kind = "Err" /\ last.result.error.kind = "InvalidFormat"
    ELSE last.result = Ok(SimpleString(LineText))

\* C18: Error validation. A `-` line whose text, the bytes before the terminating
\* CRLF, contains a CR or an LF is rejected with InvalidFormat; try_parse never
\* returns an Error value whose text contains CR or LF.
C18_ErrorValidation ==
  /\ (WholeFed(b.minus) /\ FirstCrLf > 0 /\ ~NoCrLf(LineText)) =>
       (last.result.kind = "Err" /\ last.result.error.kind = "InvalidFormat")
  /\ \A k \in 1..Len(values) : values[k].variant = "Error" => NoCrLf(values[k].text)

\* Whether a length text breaks the grammar of C19: a byte that is neither a digit
\* nor a `-` in the first place.
BreaksLengthGrammar(text) ==
  \E i \in 1..Len(text) : ~IsDigit(text[i]) /\ ~(i = 1 /\ text[i] = b.minus)

\* C19: the length-prefix grammar. After a marker of `$ * % ~ >` a length is
\* accepted only if it is made of decimal digits and at most one `-`, the `-` in the
\* first place; a `-` after a digit, a second `-`, or any other non-digit byte
\* before the CRLF yields InvalidFormat.
C19_LengthGrammar ==
  \A m \in LengthMarkers :
    (FirstCallOn(m) /\ BreaksLengthGrammar(LineText)) =>
      (last.result.kind = "Err" /\ last.result.error.kind = "InvalidFormat")

\* Whether a length text is a `-` and digits that denote a number above zero.
IsNegativeLength(text) ==
  /\ Len(text) >= 2
  /\ Head(text) = b.minus
  /\ \A i \in 2..Len(text) : IsDigit(text[i])
  /\ DigitsValue(Tail(text)) > 0

\* What C20 says of a header of marker m: try_parse returns the null form, the
\* cursor after the header line and no frame open, and what follows the header is
\* a value of its own.
NullFormOnly(m) ==
  /\ FirstCallOn(m) =>
       /\ last.result.kind = "Ok"
       /\ eq(last.result.value, NullForm(m))
       /\ parser.state = Index(FirstCrLf + 1)
       /\ parser.nested_stack = <<>>
  /\ (input.bytes[1] = m /\ Len(values) = 2) => (eq(values[1], NullForm(m)) /\ eq(values[2], Null))

\* C20 as the claim states it: for each marker of `$ * % ~ >`, a header with any
\* negative length decodes to the null form of the variant and consumes exactly
\* the header line; no payload and no element is expected after it.
C20_AnyNegativeLength ==
  \A m \in LengthMarkers :
    (input.bytes[1] = m /\ FirstCrLf > 0 /\ IsNegativeLength(LineText)) => NullFormOnly(m)

\* C20, amended: the same for every negative length that is not below i64::MIN; a
\* length below i64::MIN yields Overflow.
C20_NegativeLengthInRange ==
  \A m \in LengthMarkers :
    (input.bytes[1] = m /\ FirstCrLf > 0 /\ IsNegativeLength(LineText)) =>
      IF DecimalValue(LineText) >= I64_MIN THEN NullFormOnly(m)
      ELSE FirstCallOn(m) => last.result = Err(Overflow)

\* `~-2\r\n_\r\n` was given: try_parse has returned the null Set, then Null.
C20_Witness ==
  /\ input.bytes = <<b.tilde, b.minus, 50>> \o CRLF \o as_bytes(Null)
  /\ values = <<SetNone, Null>>
  /\ parser.state = Index(Len(input.bytes))

(***************************************************************************)
(* The caller that resets the parser after an error: clear_buffer(pos)     *)
(* with the start or the end of the buffer for pos, then read_buf and      *)
(* try_parse again.                                                        *)
(***************************************************************************)
ClearBuffer ==
  /\ last.op = "try_parse" /\ last.result.kind = "Err"
  /\ \E pos \in {0, Len(parser.buffer)} : parser' = clear_buffer(parser, pos)
  /\ last' = Call("clear_buffer", <<>>, NoResult)
  /\ prev' = last
  /\ UNCHANGED <<input, fed, base, values, fatal>>

\* read_buf after the reset.
ResetReadBuf == last.op = "clear_buffer" /\ ReadBuf

ResetNext == DriverReadBuf \/ DriverTryParse \/ ClearBuffer \/ ResetReadBuf

SpecReset == Init /\ [][ResetNext]_vars

\* Well-formed values within every pair of limits of the model.
FreshValues == {Null, SimpleString(<<79, 75>>), Integer(7)}

\* read_buf of the encoding of v, then try_parse, return v.
DecodesNext(v) == try_parse(read_buf(parser, as_bytes(v), "exact")).result = Ok(v)

\* C21: clear_buffer clears the buffer and resets the state. After the call the
\* buffer holds no bytes, the nested stack is empty and the parser is at a value
\* boundary, so that a following read_buf of a well-formed value and try_parse
\* return that value, whatever was buffered and whichever error came before.
C21_ClearBufferResets ==
  last.op = "clear_buffer" =>
    /\ parser.buffer = <<>>
    /\ parser.nested_stack = <<>>
    /\ parser.state.tag = "Index"
    /\ \A v \in FreshValues : DecodesNext(v)

(***************************************************************************)
(* The encodings as_bytes gives, stated from the wire format.              *)
(***************************************************************************)
\* v and the values inside it.
RECURSIVE Descendants(_)
Descendants(v) ==
  {v} \cup UNION {Descendants(Children(v)[i]) : i \in 1..Len(Children(v))}

\* The concatenation of the byte strings of a sequence.
RECURSIVE Concat(_)
Concat(parts) == IF parts = <<>> THEN <<>> ELSE Head(parts) \o Concat(Tail(parts))

\* The marker of an aggregate variant.
AggregateMarker(v) ==
  CASE v.variant = "Array" -> b.star
    [] v.variant = "Map" -> b.percent
    [] v.variant = "Set" -> b.tilde
    [] v.variant = "Push" -> b.gt

\* The count an aggregate declares: its pairs for a Map, its elements otherwise.
DeclaredCount(v) == IF v.variant = "Map" THEN Len(Children(v)) \div 2 ELSE Len(Children(v))

\* What C22 says the bytes of the aggregate v are.
AggregateEncoding(v) ==
  IF v.null THEN <<AggregateMarker(v), b.minus, b.one, b.cr, b.lf>>
  ELSE <<AggregateMarker(v)>> \o FormatNat(DeclaredCount(v)) \o <<b.cr, b.lf>>
         \o Concat([i \in 1..Len(Children(v)) |-> as_bytes(Children(v)[i])])

\* The value the stream was encoded from, when it is one value.
OneSent == input.wf /\ Len(input.sent) = 1

\* C22: aggregate encoding. as_bytes of a present Array, Set or Push is the marker,
\* the element count in decimal, CRLF and the as_bytes of each element in order; of
\* a present Map it is `%`, the pair count, CRLF and for each pair the bytes of the
\* key, then of the value; a null form is marker, `-1`, CRLF and an empty form has
\* the count 0; the values inside an aggregate are encoded the same way.
C22_AggregateEncoding ==
  OneSent =>
    /\ input.bytes = as_bytes(input.sent[1])
    /\ \A v \in Descendants(input.sent[1]) :
         v.variant \in {"Array", "Map", "Set", "Push"} => as_bytes(v) = AggregateEncoding(v)

\* The Map of the pairs (7, Null) and (Null, Null) was encoded as
\* `%2\r\n:7\r\n_\r\n_\r\n_\r\n` and given to the parser.
C22_Witness ==
  /\ input.sent = <<Map(<<<<Integer(7), Null>>, <<Null, Null>>>>)>>
  /\ input.bytes = <<37, 50, 13, 10, 58, 55, 13, 10, 95, 13, 10, 95, 13, 10, 95, 13, 10>>
  /\ last.op = "read_buf"

\* Whether e is `$`, the decimal length of payload, CRLF, payload, CRLF.
IsBulkEncoding(e, payload) ==
  \E k \in 2..Len(e) :
    /\ \A i \in 2..k : IsDigit(e[i])
    /\ DigitsValue(SubSeq(e, 2, k)) = Len(payload)
    /\ e = <<b.dollar>> \o SubSeq(e, 2, k) \o <<b.cr, b.lf>> \o payload \o <<b.cr, b.lf>>

\* Whether e is what C23 says the bytes of the scalar v are.
IsScalarEncoding(e, v) ==
  CASE v.variant = "SimpleString" -> e = <<b.plus>> \o v.text \o <<b.cr, b.lf>>
    [] v.variant = "Error" -> e = <<b.minus>> \o v.text \o <<b.cr, b.lf>>
    [] v.variant = "Integer" ->
         /\ Len(e) > 3 /\ e[1] = b.colon
         /\ SubSeq(e, Len(e) - 1, Len(e)) = <<b.cr, b.lf>>
         /\ IsDecimal(SubSeq(e, 2, Len(e) - 2))
         /\ DecimalValue(SubSeq(e, 2, Len(e) - 2)) = v.int
    [] v.variant = "BulkString" ->
         /\ v.null => e = <<b.dollar, b.minus, b.one, b.cr, b.lf>>
         /\ ~v.null => IsBulkEncoding(e, v.text)
         /\ (~v.null /\ v.text = <<>>) => e = <<b.dollar, b.zero, b.cr, b.lf, b.cr, b.lf>>
    [] v.variant = "Null" -> e = <<b.underscore, b.cr, b.lf>>
    [] v.variant = "Boolean" ->
         e = <<b.hash, IF v.int = 1 THEN b.t ELSE b.f, b.cr, b.lf>>
    [] OTHER -> TRUE

\* C23: scalar encoding. as_bytes gives `+text\r\n` for a SimpleString, `-text\r\n`
\* for an Error, `:n\r\n` with n in decimal for an Integer, `$len\r\npayload\r\n`
\* with len the number of payload bytes for a present BulkString (`$0\r\n\r\n` when
\* it is empty), `$-1\r\n` for a null BulkString, `_\r\n` for Null and `#t\r\n` or
\* `#f\r\n` for a Boolean; every encoding ends with CRLF.
C23_ScalarEncoding ==
  OneSent =>
    \A v \in Descendants(input.sent[1]) :
      /\ IsScalarEncoding(as_bytes(v), v)
      /\ Len(as_bytes(v)) >= 2
      /\ SubSeq(as_bytes(v), Len(as_bytes(v)) - 1, Len(as_bytes(v))) = <<b.cr, b.lf>>

\* The Integer -12 was encoded as `:-12\r\n` and given to the parser.
C23_Witness ==
  /\ input.sent = <<Integer(-12)>>
  /\ input.bytes = <<58, 45, 49, 50, 13, 10>>
  /\ last.op = "read_buf"

(***************************************************************************)
(* RespValue::is_none (src/src/resp.rs).                                   *)
(***************************************************************************)
is_none(v) ==
  CASE v.variant \in {"SimpleString", "Error", "Integer"} -> FALSE
    [] v.variant = "BulkString" -> v.null \/ (~v.null /\ v.text = <<>>)
    [] v.variant = "Array" -> v.null \/ (~v.null /\ v.items = <<>>)
    [] v.variant = "Null" -> TRUE
    [] v.variant \in {"Boolean", "Double", "BigNumber"} -> FALSE
    [] v.variant = "VerbatimString" -> v.null \/ (~v.null /\ v.text = <<>>)
    [] v.variant \in {"Map", "Set", "Push"} -> v.null \/ (~v.null /\ v.items = <<>>)
    [] v.variant = "BulkError" -> FALSE

\* What C24 says is_none returns for v.
IsNullOrEmpty(v) ==
  CASE v.variant = "Null" -> TRUE
    [] v.variant \in {"SimpleString", "Error", "Integer", "Boolean", "Double", "BigNumber"} ->
         FALSE
    [] v.variant \in {"BulkString", "VerbatimString"} -> v.null \/ v.text = <<>>
    [] v.variant \in {"Array", "Map", "Set", "Push"} -> v.null \/ v.items = <<>>
    [] v.variant = "BulkError" -> v.null

\* C24: is_none is true for Null, for the null form of BulkString, Array, Map, Set,
\* Push, BulkError and VerbatimString and for the present-empty form of BulkString,
\* VerbatimString, Array, Map, Set and Push; it is false for every non-empty string
\* or aggregate and for every SimpleString, Error, Integer, Boolean, Double and
\* BigNumber.
C24_IsNone ==
  OneSent => \A v \in Descendants(input.sent[1]) : is_none(v) = IsNullOrEmpty(v)

(***************************************************************************)
(* The frames of the nested stack against the stream, when try_parse has   *)
(* suspended inside an aggregate.                                          *)
(***************************************************************************)
\* Whether the frames of stack, outermost first, are those of the aggregates
\* open from v downward: kind, declared total, count of children read, and the
\* children decoded so far, in order.
RECURSIVE FramesMatch(_, _)
FramesMatch(stack, v) ==
  IF stack = <<>> THEN TRUE
  ELSE LET frame == Head(stack)
       IN /\ IsAggregate(v)
          /\ frame.original_type_char = AggregateMarker(v)
          /\ frame.total = Len(Children(v))
          /\ frame.current = Len(frame.elements)
          /\ frame.current < frame.total
          /\ \A i \in 1..Len(frame.elements) : eq(frame.elements[i], Children(v)[i])
          /\ frame.current < Len(Children(v))
               => FramesMatch(Tail(stack), Children(v)[frame.current + 1])

\* The offset, from the first byte of v, of the child the innermost frame of stack
\* waits for: the headers of the open aggregates and the children decoded so far.
RECURSIVE ChildBoundary(_, _)
ChildBoundary(stack, v) ==
  IF stack = <<>> \/ ~IsAggregate(v) \/ Len(Head(stack).elements) >= Len(Children(v)) THEN 0
  ELSE (Len(as_bytes(v)) - Len(as_bytes_all(Children(v))))
         + Len(as_bytes_all(Head(stack).elements))
         + ChildBoundary(Tail(stack), Children(v)[Len(Head(stack).elements) + 1])

\* try_parse has suspended while an aggregate is open.
MidAggregate ==
  /\ last.op = "try_parse"
  /\ IsSuspension(last.result)
  /\ parser.nested_stack # <<>>

\* The same on a stream of well-formed values, no error having been returned.
MidAggregateOfStream ==
  /\ MidAggregate
  /\ input.wf /\ fatal = {}
  /\ IsPrefix(values, input.sent) /\ Len(values) < Len(input.sent)

\* The frames hold the work done, and the cursor is at the boundary of the next
\* child or inside that child.
KeepsWorkDone ==
  LET boundary ==
        Len(as_bytes_all(values)) + ChildBoundary(parser.nested_stack, NextValue)
  IN /\ FramesMatch(parser.nested_stack, NextValue)
     /\ Offset >= boundary /\ Offset <= fed
     /\ parser.state.tag = "Index" => Offset = boundary

\* read_buf leaves the frames and the bytes from the cursor onward as they were.
ResumesAtChild ==
  /\ parser'.nested_stack = parser.nested_stack
  /\ Unplaced(parser') = Unplaced(parser)
  /\ Unconsumed(parser') = Unconsumed(parser) \o last'.chunk

\* C25: mid-aggregate suspension keeps the work done. When try_parse suspends while
\* an aggregate is open, every open frame keeps its kind, declared total, count of
\* children read and the children already decoded, in order; after more bytes are
\* fed, parsing continues at the boundary of the next child or inside the partially
\* received child, and no byte of an already decoded child is read again.
C25_MidAggregateSuspension ==
  /\ [](MidAggregateOfStream => KeepsWorkDone)
  /\ [][(MidAggregate /\ last'.op = "read_buf" /\ last'.result.kind # "Panic")
          => ResumesAtChild]_vars

(***************************************************************************)
(* The empty bulk string `$0\r\n\r\n`.                                     *)
(***************************************************************************)
\* The parser is at a value boundary and the buffer from the cursor onward is
\* the header `$0\r\n`, alone or with the first byte of the second CRLF.
AtEmptyBulkHeader ==
  /\ last.result.kind # "Panic"
  /\ parser.state.tag = "Index"
  /\ Len(parser.nested_stack) <= parser.max_depth
  /\ Unconsumed(parser) \in {EmptyBulkHeader, Append(EmptyBulkHeader, b.cr)}

\* The parser is between two values and the buffer from the cursor onward starts
\* with `$0\r\n\r\n`.
AtEmptyBulk ==
  /\ last.result.kind # "Panic"
  /\ parser.state.tag = "Index"
  /\ parser.nested_stack = <<>>
  /\ IsPrefix(EmptyBulkHeader \o CRLF, Unconsumed(parser))

\* Whether an empty bulk string is among the values sent or inside one of them.
SentEmptyBulk ==
  \E k \in 1..Len(input.sent) : BulkString(<<>>) \in Descendants(input.sent[k])

\* What C26 says of the call of try_parse in this state, `run` being its result.
EmptyBulkFraming(run) ==
  /\ AtEmptyBulkHeader => run.result = Err(UnexpectedEof) /\ run.p.buffer = parser.buffer
  /\ AtEmptyBulk =>
       /\ run.result = Ok(BulkString(<<>>))
       /\ run.p.state = Index(cursor(parser) + Len(EmptyBulkHeader) + CRLF_LEN)

\* C26: empty bulk string framing. After the header `$0\r\n` the parser requires a
\* second `\r\n`: with the header alone buffered try_parse suspends, with
\* `$0\r\n\r\n` it returns BulkString(Some("")) and leaves the cursor after both
\* CRLFs, and the values of a stream that has an empty bulk string in it, inside an
\* aggregate or not, are decoded each from its first byte.
C26_EmptyBulkFraming ==
  /\ EmptyBulkFraming(try_parse(parser))
  /\ (input.wf /\ SentEmptyBulk /\ fatal = {}) =>
       /\ IsPrefix(values, input.sent)
       /\ last.result.kind = "Ok" => Offset = Len(as_bytes_all(values))

\* try_parse suspended on the header of the empty bulk string of the array
\* `*2\r\n$0\r\n\r\n:7\r\n`, then returned the array.
C26_Witness ==
  /\ input.sent = <<Array(<<BulkString(<<>>), Integer(7)>>)>>
  /\ prev.op = "read_buf"
  /\ last.op = "try_parse" /\ last.result = Ok(input.sent[1])
  /\ Offset = Len(input.bytes)

(***************************************************************************)
(* The payload of a bulk string, `$N\r\n` having been read.                *)
(***************************************************************************)
\* The bytes buffered after the header of the bulk string the state is in.
AfterBulkHeader == Slice(parser.buffer, parser.state.start_pos, Len(parser.buffer))

\* The state is inside a bulk string of a length N > 0 within max_length.
InBulkPayload ==
  /\ last.result.kind # "Panic"
  /\ parser.state.tag = "ReadingBulkString"
  /\ parser.state.remaining > 0
  /\ parser.state.remaining <= parser.max_length

\* N + 2 bytes follow the header, the last two being `\r\n`.
BulkTerminated ==
  /\ Len(AfterBulkHeader) >= parser.state.remaining + CRLF_LEN
  /\ SubSeq(AfterBulkHeader, parser.state.remaining + 1, parser.state.remaining + CRLF_LEN)
       = <<b.cr, b.lf>>

\* The N bytes after the header.
BulkPayload == SubSeq(AfterBulkHeader, 1, parser.state.remaining)

\* C27: the bulk payload is read by length. After `$N\r\n` with N > 0 within
\* max_length try_parse suspends until N + 2 further bytes are buffered, also when
\* the N payload bytes are there and the terminator is not; then it returns the N
\* bytes as the payload, CR and LF among them or not, when the bytes N+1 and N+2
\* are `\r\n`, and InvalidFormat when they are not. (A payload that is not UTF-8
\* is left to InvalidUtf8.)
C27_BulkPayloadByLength ==
  /\ (InBulkPayload /\ last.op = "try_parse") =>
       IF Len(AfterBulkHeader) < parser.state.remaining + CRLF_LEN
         THEN IsSuspension(last.result)
       ELSE /\ last.result.kind = "Err"
            /\ IF BulkTerminated
                 THEN ~from_utf8_ok(BulkPayload) /\ last.result.error = InvalidUtf8
               ELSE last.result.error.kind = "InvalidFormat"
  /\ (InBulkPayload /\ BulkTerminated /\ from_utf8_ok(BulkPayload)
        /\ parser.nested_stack = <<>>) =>
       /\ try_parse(parser).result = Ok(BulkString(BulkPayload))
       /\ try_parse(parser).p.state =
            Index(parser.state.start_pos + parser.state.remaining + CRLF_LEN)

(***************************************************************************)
(* The error of a suspension.                                              *)
(***************************************************************************)
\* try_parse was called on a stream of well-formed values within the limits, of
\* which the bytes fed end before the end of the value that comes next, and it
\* returned no value; no error other than this one was returned before.
CalledOnIncomplete ==
  /\ input.wf
  /\ last.op = "try_parse" /\ last.result.kind = "Err"
  /\ fatal \subseteq {last.result.error}
  /\ IsPrefix(values, input.sent)
  /\ Len(values) < Len(input.sent) =>
       /\ fed < Len(as_bytes_all(values)) + Len(as_bytes(NextValue))
       /\ Depth(NextValue) <= parser.max_depth
       /\ MaxBulk(NextValue) <= parser.max_length

\* A bulk-string header of a positive length was read and fewer than length + 2
\* bytes are buffered after it.
BulkHeaderRead ==
  /\ parser.state.tag = "ReadingBulkString"
  /\ parser.state.remaining > 0
  /\ Len(AfterBulkHeader) < parser.state.remaining + CRLF_LEN

\* C28: which suspension error. Incomplete input is reported as NotEnoughData
\* exactly when a bulk-string header with a positive length has been read and fewer
\* than length + 2 bytes are buffered after it; every other incompleteness (no byte
\* at a value boundary, an unterminated line or length prefix, the missing second
\* CRLF of `$0`, an aggregate that waits for children) is reported as
\* UnexpectedEof.
C28_WhichSuspensionError ==
  /\ last.result = Err(NotEnoughData) => BulkHeaderRead
  /\ CalledOnIncomplete =>
       last.result = IF BulkHeaderRead THEN Err(NotEnoughData) ELSE Err(UnexpectedEof)

(***************************************************************************)
(* A pair `\r\n` where a value may begin.                                  *)
(***************************************************************************)
\* The parser is at a value boundary, at top level or inside an open aggregate,
\* and the bytes at the cursor are `\r\n`.
AtStrayCrLf ==
  /\ last.result.kind # "Panic"
  /\ parser.state.tag = "Index"
  /\ ~depth_exceeded(parser)
  /\ IsPrefix(<<b.cr, b.lf>>, Unconsumed(parser))

\* The parser with its cursor after the pair.
PastCrLf == [parser EXCEPT !.state = Index(cursor(parser) + CRLF_LEN)]

\* C29: a stray CRLF at a value boundary is skipped. When the byte at a value
\* boundary is `\r` followed by `\n`, the parser advances past both and stays at a
\* value boundary, at top level and between the children of an open aggregate
\* alike: the pair produces no value and is not counted as a child, so that the
\* call, when it ends before the ceiling of iterations, returns what it returns
\* when it starts after the pair.
C29_StrayCrLfSkipped ==
  AtStrayCrLf =>
    /\ iteration(parser) = [p |-> PastCrLf, done |-> FALSE, result |-> NoResult]
    /\ try_parse(parser).result # Err(InvalidFormat("Maximum parsing iterations exceeded"))
         => try_parse(parser) = try_parse(PastCrLf)

\* try_parse met the pair `\r\n` between the header and the child of the array
\* `*1\r\n\r\n_\r\n` and returned the array of the one child.
C29_Witness ==
  /\ input.bytes = <<42, 49, 13, 10, 13, 10, 95, 13, 10>>
  /\ last.op = "try_parse" /\ last.result = Ok(Array(<<Null>>))
  /\ Offset = Len(input.bytes)

(***************************************************************************)
(* A bulk-string header of a length over max_length.                       *)
(***************************************************************************)
\* The stream is the header `$N\r\n`, N a number of decimal digits over
\* max_length, with or without bytes after it, and try_parse was called on it.
OverLimitHeader ==
  /\ FirstCallOn(b.dollar)
  /\ LineText # <<>>
  /\ \A i \in 1..Len(LineText) : IsDigit(LineText[i])
  /\ DigitsValue(LineText) > parser.max_length

\* C30 as the claim states it: as soon as a header `$N\r\n` with N over the limit
\* is buffered, try_parse returns InvalidLength, with no payload byte buffered as
\* with some.
C30_LimitOnHeaderAlone == OverLimitHeader => last.result = Err(InvalidLength)

\* C30, amended: the same for every N over the limit that is at most i64::MAX; a
\* length above i64::MAX yields Overflow.
C30_LimitOnHeaderInRange ==
  OverLimitHeader =>
    last.result = IF DigitsValue(LineText) <= I64_MAX THEN Err(InvalidLength) ELSE Err(Overflow)

\* `$12\r\n` alone was given, max_length being 3: try_parse has returned
\* InvalidLength.
C30_Witness ==
  /\ input.bytes = <<b.dollar, b.one, 50, b.cr, b.lf>>
  /\ parser.max_length = 3
  /\ last.op = "try_parse" /\ last.result = Err(InvalidLength)

(***************************************************************************)
(* The caller that calls try_parse again whatever it returned: the streams *)
(* and the read_buf calls of SpecBig, try_parse at any time and again and  *)
(* again.                                                                  *)
(***************************************************************************)
RetryNext == ReadBufBulk \/ ReadBufSmall \/ TryParse

\* The error of the ceiling of iterations.
CeilingError == Err(InvalidFormat("Maximum parsing iterations exceeded"))

\* The call of try_parse that follows the error of the ceiling.
Retry == last.op = "try_parse" /\ last.result = CeilingError /\ TryParse

\* The caller that was given the error of the ceiling does call again.
SpecRetry == BigInit /\ [][RetryNext]_vars /\ WF_vars(Retry)

\* try_parse has returned the error of the ceiling, and the buffer holds what a
\* decoder without the ceiling needs to return a value from here.
StoppedAtCeiling ==
  /\ last.op = "try_parse" /\ last.result = CeilingError
  /\ uncapped(parser).run.result.kind = "Ok"

\* What C31 says of the call `run` of try_parse in this state: when it returns the
\* error of the ceiling, a decoder without the ceiling ends from the state the
\* call leaves as it ends from the state before the call, in MAX_ITERATIONS
\* iterations fewer; when it returns a value, it is the value that decoder returns.
KeepsProgress(run) ==
  /\ run.result = CeilingError =>
       /\ uncapped(run.p).run = uncapped(parser).run
       /\ uncapped(run.p).steps + MAX_ITERATIONS = uncapped(parser).steps
  /\ run.result.kind = "Ok" => run = uncapped(parser).run

\* C31: progress survives the iteration ceiling. When try_parse returns the error
\* of the ceiling, the state and the frames reached are kept, and when the buffer
\* holds the whole value, try_parse called again and again with no read_buf in
\* between eventually returns the value a decoder without the ceiling returns.
C31_ProgressSurvivesCeiling ==
  /\ [](last.result.kind # "Panic" => KeepsProgress(try_parse(parser)))
  /\ StoppedAtCeiling ~> (last.result.kind = "Ok" \/ last.op = "read_buf")

\* The array of LargeCount integers was buffered: try_parse returned the error of
\* the ceiling, then the array.
C31_Witness ==
  /\ input.sent = LargeArray
  /\ prev = Call("try_parse", <<>>, CeilingError)
  /\ last = Call("try_parse", <<>>, Ok(LargeArray[1]))

(***************************************************************************)
(* The frames of nested_stack when try_parse returns.                      *)
(***************************************************************************)
\* A frame as try_parse leaves it: a ReadingArray state that awaits a child, with
\* as many elements stored as children read, and an even total for a Map.
FrameAwaitsChild(frame) ==
  /\ frame.tag = "ReadingArray"
  /\ frame.total > 0
  /\ Len(frame.elements) = frame.current
  /\ frame.current < frame.total
  /\ frame.original_type_char = b.percent => frame.total % 2 = 0

\* The parser as a call of try_parse that returned a value leaves it: no frame,
\* and the state Index at a position of the buffer, the byte after the encoding
\* of the value when the stream is one of well-formed values.
AfterValue ==
  /\ parser.nested_stack = <<>>
  /\ parser.state.tag = "Index"
  /\ parser.state.pos \in 1..Len(parser.buffer)
  /\ (input.wf /\ IsPrefix(values, input.sent)) => Offset = Len(as_bytes_all(values))

\* C32: the frame invariant. Whenever try_parse has returned, with a value, a
\* suspension or an error, every frame of nested_stack is a ReadingArray frame
\* with total > 0, as many stored elements as children read and fewer children
\* read than total, the total of a Map frame being even; and right after a value
\* is returned the stack is empty and the state is Index at the byte after it.
C32_FrameInvariant ==
  (last.op = "try_parse" /\ last.result.kind # "Panic") =>
    /\ \A i \in 1..Len(parser.nested_stack) : FrameAwaitsChild(parser.nested_stack[i])
    /\ last.result.kind = "Ok" => AfterValue

\* try_parse has suspended inside `%1\r\n_\r\n*1\r\n_\r\n` with two frames on the
\* stack: the one of the Map, its key read, and the one of the Array, nothing read.
C32_Witness ==
  /\ last = Call("try_parse", <<>>, Err(UnexpectedEof))
  /\ Len(parser.nested_stack) = 2
  /\ parser.nested_stack[1].original_type_char = b.percent
  /\ parser.nested_stack[1].current = 1
  /\ parser.nested_stack[2].current = 0

(***************************************************************************)
(* The positions the state holds, and the buffer.                          *)
(***************************************************************************)
\* The calls made so far have returned, none has panicked.
NonePanicked == last.result.kind # "Panic"

\* The position the state holds is a position of the buffer, its end included.
CursorInRange == cursor(parser) \in 0..Len(parser.buffer)

\* C33: no out-of-bounds access. Whatever the bytes, their chunking, and the
\* interleaving of read_buf and try_parse, the position held in the state is at
\* most the length of the buffer, so that try_parse, find_crlf and read_buf index
\* and slice the buffer in range and return instead of panicking.
C33_NoOutOfBounds ==
  /\ NonePanicked
  /\ CursorInRange
  /\ try_parse(parser).result.kind # "Panic"

(***************************************************************************)
(* The two encoders: `impl From<RespValue> for Vec<u8>` and as_bytes.      *)
(***************************************************************************)
\* C34: the two encoders agree. For every value v on which `Vec<u8>::from(v)`
\* returns, its result is v.as_bytes(), for the value the stream was encoded from
\* and for the values nested in it.
C34_EncodersAgree ==
  OneSent =>
    \A v \in Descendants(input.sent[1]) : ~from_panics(v) => from(v) = as_bytes(v)

(***************************************************************************)
(* The count of children a Map header asks for.                            *)
(***************************************************************************)
\* The stream begins with the header of a Map of N > 0 pairs, N within the range
\* of i64, and try_parse was called once on the whole stream.
MapHeaderRead ==
  /\ FirstCallOn(b.percent)
  /\ IsDecimal(LineText)
  /\ DecimalValue(LineText) \in 1..I64_MAX

\* C35: the child count of a Map never overflows. For a Map header with the pair
\* count N > 0, N up to i64::MAX, the frame awaits exactly 2 * N children: the
\* multiplication neither wraps nor panics.
C35_MapChildCount ==
  MapHeaderRead =>
    /\ last.result.kind # "Panic"
    /\ parser.nested_stack # <<>>
    /\ parser.nested_stack[1].original_type_char = b.percent
    /\ parser.nested_stack[1].total = 2 * DecimalValue(LineText)

(***************************************************************************)
(* Length headers beyond the range of i64.                                 *)
(***************************************************************************)
\* The stream begins with a length header of an optional `-` and digits, and
\* try_parse was called once on the whole stream.
LengthHeaderRead ==
  /\ input.bytes[1] \in LengthMarkers
  /\ FirstCallOn(input.bytes[1])
  /\ IsDecimal(LineText)

\* Whether n is within the range of i64.
InI64(n) == n >= I64_MIN /\ n <= I64_MAX

\* The bytes of the text whose digit takes the accumulated value out of the range
\* of i64; the first of them is where the decoder stops.
OutAt == {k \in 1..Len(LineText) : ~InI64(DecimalValue(SubSeq(LineText, 1, k)))}

\* C36: overflow of the length prefix. In a length header the digit that takes
\* the accumulated value out of the range of i64 yields Overflow at that digit,
\* for a positive length and for a negative one; the value never wraps, and a
\* length within the range is not an overflow.
C36_LengthOverflow ==
  LengthHeaderRead =>
    IF OutAt = {} THEN last.result # Err(Overflow)
    ELSE /\ last.result = Err(Overflow)
         /\ parser.state.tag = "ReadingLength"
         /\ \A k \in OutAt : parser.state.pos <= k
         /\ parser.state.pos \in OutAt
         /\ parser.state.value = DecimalValue(SubSeq(LineText, 1, parser.state.pos - 1))

\* try_parse has returned Overflow on a header of the length i64::MIN - 1, at its
\* last digit.
C36_Witness ==
  /\ LengthHeaderRead
  /\ LineText = <<b.minus>> \o FormatNat(I64_MAX + 2)
  /\ last.result = Err(Overflow)
  /\ parser.state.pos = Len(LineText)

(***************************************************************************)
(* The line of a big number.                                               *)
(***************************************************************************)
\* Whether every byte of text is a decimal digit, or `-` as the first byte.
IsBigNumberText(text) ==
  \A i \in 1..Len(text) : text[i] \in 48..57 \/ (i = 1 /\ text[i] = 45)

\* C37: the BigNumber grammar. A `(` line decodes to a BigNumber exactly when
\* every byte of the line is a decimal digit, the first byte being allowed to be
\* `-`; a line with any other byte yields InvalidFormat; the BigNumber holds the
\* text of the line as it is, leading zeros and `-0` included.
C37_BigNumberGrammar ==
  FirstCallOn(b.lparen) =>
    IF IsBigNumberText(LineText)
      THEN /\ last.result = Ok(BigNumber(LineText))
           /\ parser.state = Index(FirstCrLf + 1)
    ELSE /\ last.result.kind = "Err"
         /\ last.result.error.kind = "InvalidFormat"

\* try_parse has returned the BigNumber `-01` for the line `(-01\r\n`.
C37_Witness ==
  /\ input.bytes = <<40, 45, 48, 49, 13, 10>>
  /\ last = Call("try_parse", <<>>, Ok(BigNumber(<<45, 48, 49>>)))
  /\ prev.op = "read_buf"

(***************************************************************************)
(* A byte that is no marker, where a value begins.                         *)
(***************************************************************************)
\* The bytes `+ - : $ * % ~ > _ # , ( ! =`.
Markers == {43, 45, 58, 36, 42, 37, 126, 62, 95, 35, 44, 40, 33, 61}

\* The parser p is at a value boundary, within max_depth, and the byte there is
\* neither a marker nor `\r`.
AtUnknownMarker(p) ==
  /\ p.state.tag = "Index"
  /\ p.state.pos < Len(p.buffer)
  /\ At(p.buffer, p.state.pos) \notin Markers \cup {13}
  /\ Len(p.nested_stack) <= p.max_depth

\* Whether result is an InvalidFormat error.
IsInvalidFormat(result) == result.kind = "Err" /\ result.error.kind = "InvalidFormat"

\* What C38 says of the call `run` of try_parse in this state.
UnknownMarkerRefused(run) ==
  /\ AtUnknownMarker(parser) => (IsInvalidFormat(run.result) /\ run.p = parser)
  /\ (AtUnknownMarker(run.p) /\ run.result.kind # "Ok") => IsInvalidFormat(run.result)

\* C38: the unknown marker. When the byte at a value boundary is none of
\* `+ - : $ * % ~ > _ # , ( ! =` and is not `\r`, try_parse returns InvalidFormat
\* and leaves the cursor on that byte, at top level and inside an open aggregate.
C38_UnknownMarker == last.result.kind # "Panic" => UnknownMarkerRefused(try_parse(parser))

\* try_parse has read `*2\r\n_\r\n` and has returned InvalidFormat on the `?` that
\* follows, the frame of the Array open with the Null in it and the cursor on `?`.
C38_Witness ==
  /\ input.bytes = <<42, 50, 13, 10, 95, 13, 10, 63>>
  /\ last = Call("try_parse", <<>>, Err(InvalidFormat("Invalid type marker")))
  /\ AtUnknownMarker(parser)
  /\ parser.state.pos = 7
  /\ Len(parser.nested_stack) = 1
  /\ parser.nested_stack[1].elements = <<Null>>

====
